---- MODULE Spec2Model ----
(***************************************************************************)
(* A model of the ClinVar data quality monitor: the downloader             *)
(* (src/src/downloader.py), the metrics, score and reports of the quality  *)
(* checker (src/src/quality_checker.py), the Quilt packager                *)
(* (src/src/quilt_packager.py) and the pipeline orchestrator               *)
(* (src/scripts/run_pipeline.py).                                          *)
(*                                                                         *)
(* Numbers that Python holds as floats are exact rationals <<n, d>> here   *)
(* (d > 0, lowest terms), so the arithmetic of the score is the arithmetic *)
(* of the formula without binary rounding.                                 *)
(***************************************************************************)
EXTENDS Integers, Sequences, FiniteSets, TLC

VARIABLES
    config,      \* the configuration the modules are built from
    dl_dir,      \* the download directory: file name -> content, Dir or NoFile
    out_dir,     \* the report directory: file name -> JSON document written
    registry,    \* the package last pushed to the remote registry, or None
    stack,       \* the call stack, innermost frame last
    pc,          \* the position in the innermost frame
    loc,         \* the local variables of the frames
    outcome,     \* how the last top-level call ended
    log,         \* the external calls the current top-level call has made
    calls,       \* the number of top-level calls started
    sc_report,   \* calculate_quality_score: the report passed in
    sc_result,   \* calculate_quality_score: the value returned, or None
    qc_df,       \* the quality checker: the table it is given
    qc,          \* the quality checker: the values its calls returned
    alt_dir,     \* a report directory passed as output_dir, absent at first
    pk,          \* QuiltPackager.__init__: the configured name, the identifier
    mn,          \* main(): its position, command line, config file, exit code
    remote       \* the body of the checksum file the server holds from run to run

(***************************************************************************)
(* Exact rational arithmetic.                                              *)
(***************************************************************************)
Abs(x) == IF x < 0 THEN -x ELSE x

RECURSIVE GCD(_, _)
GCD(a, b) == IF b = 0 THEN a ELSE GCD(b, a % b)

Rat(n, d) ==
    LET g == GCD(Abs(n), Abs(d))
        s == IF d < 0 THEN -1 ELSE 1
    IN  <<(s * n) \div g, (s * d) \div g>>

FromInt(i) == <<i, 1>>
RLe(a, b) == a[1] * b[2] <= b[1] * a[2]
RLt(a, b) == a[1] * b[2] < b[1] * a[2]
RAdd(a, b) == Rat(a[1] * b[2] + b[1] * a[2], a[2] * b[2])
RSub(a, b) == Rat(a[1] * b[2] - b[1] * a[2], a[2] * b[2])
RMul(a, b) == Rat(a[1] * b[1], a[2] * b[2])
RDiv(a, b) == Rat(a[1] * b[2], a[2] * b[1])
RMin(a, b) == IF RLt(b, a) THEN b ELSE a
RMax(a, b) == IF RLt(a, b) THEN b ELSE a

\* dict.get(key, default)
Get(d, key, default) == IF key \in DOMAIN d THEN d[key] ELSE default

(***************************************************************************)
(* QualityChecker.calculate_quality_score, statement by statement.         *)
(***************************************************************************)
Half == Rat(1, 2)
Quarter == Rat(1, 4)
Fifth == Rat(1, 5)

\* Lines 195-197 with the rate left a fraction: no "* 100".
conflict_rate_fraction(report) ==
    IF RLt(FromInt(0), Get(report, "row_count", FromInt(0)))
    THEN RDiv(Get(report, "conflicting_count", FromInt(0)), report["row_count"])
    ELSE FromInt(0)

\* Lines 195-197: the conflict rate in percent, 0 without rows.
conflict_rate(report) ==
    IF RLt(FromInt(0), Get(report, "row_count", FromInt(0)))
    THEN RMul(RDiv(Get(report, "conflicting_count", FromInt(0)),
                   report["row_count"]), FromInt(100))
    ELSE FromInt(0)

\* Line 192 without its cap: null_pct * 0.5
completeness_penalty_uncapped(report) ==
    RMul(Get(report, "null_percentage_avg", FromInt(0)), Half)

\* Lines 191-192: the completeness penalty, min(null_pct * 0.5, 30)
completeness_penalty(report) ==
    RMin(RMul(Get(report, "null_percentage_avg", FromInt(0)), Half), FromInt(30))

\* Line 198: the conflict penalty, min(conflict_rate * 2, 25)
conflict_penalty(report) ==
    RMin(RMul(conflict_rate(report), FromInt(2)), FromInt(25))

\* Lines 201-202: the review status bonus, min(four_star_pct * 0.25, 25)
review_bonus(report) ==
    RMin(RMul(Get(report, "four_star_percentage", FromInt(0)), Quarter),
         FromInt(25))

\* Line 207 with row_count in place of (100 - row_count).
size_penalty_rows(report) ==
    LET row_count == Get(report, "row_count", FromInt(0))
    IN  IF RLt(row_count, FromInt(100))
        THEN RMin(RMul(row_count, Fifth), FromInt(20))
        ELSE FromInt(0)

\* Lines 205-207: the size penalty, min((100 - row_count) * 0.2, 20) below
\* 100 rows and nothing from 100 rows on.
size_penalty(report) ==
    LET row_count == Get(report, "row_count", FromInt(0))
    IN  IF RLt(row_count, FromInt(100))
        THEN RMin(RMul(RSub(FromInt(100), row_count), Fifth), FromInt(20))
        ELSE FromInt(0)

\* Lines 188-207: the score before it is bounded.
unbounded_score(report) ==
    LET score0 == FromInt(100)
        score1 == RSub(score0, completeness_penalty(report))
        score2 == RSub(score1, conflict_penalty(report))
        score3 == RAdd(score2, review_bonus(report))
    IN  RSub(score3, size_penalty(report))

\* Line 210 without its bounding: return score.
calculate_quality_score_unbounded(report) == unbounded_score(report)

\* Line 210: return max(0, min(100, score))
calculate_quality_score(report) ==
    RMax(FromInt(0), RMin(FromInt(100), unbounded_score(report)))

(***************************************************************************)
(* Bounds of the model.                                                    *)
(***************************************************************************)
MaxRetriesArg == 3      \* download_file is called with max_retries in 0..MaxRetriesArg
MaxCalls == 2           \* top-level calls in one behaviour

(***************************************************************************)
(* File names, URLs and file contents.  A file name is the sequence of its *)
(* dot-separated parts; the empty name is the directory itself             *)
(* (download_dir / "" is download_dir).  A URL is the sequence of the      *)
(* "/"-separated segments of its path.                                     *)
(***************************************************************************)
NoFile == "NoFile"
Dir == "Dir"
ArchiveName == <<"variant_summary", "txt", "gz">>
DataName == <<"variant_summary", "txt">>
DirName == <<>>
FileNames == {DirName, ArchiveName, DataName}

ArchiveUrl == <<DirName, <<"pub">>, ArchiveName>>
SlashUrl == <<DirName, <<"pub">>, DirName>>
Urls == {ArchiveUrl, SlashUrl}
ChecksumUrl == <<DirName, <<"pub">>, <<"variant_summary", "txt", "gz", "md5">>>>

\* What the remote server can hand out as the archive: the gzip of a good
\* table, of a poor one and of a flawless one, the gzip of a table whose
\* integer columns do not parse, and bytes that are no gzip stream.
ArchiveContents == {"gzA", "gzLow", "gzHigh", "gzBad", "junk"}
IsGzip(c) == c \in {"gzA", "gzLow", "gzHigh", "gzBad"}
Gunzip(c) ==
    CASE c = "gzA" -> "tsvA"
      [] c = "gzLow" -> "tsvLow"
      [] c = "gzHigh" -> "tsvHigh"
      [] OTHER -> "tsvBad"
Parses(c) == c \in {"tsvA", "tsvLow", "tsvHigh"}

\* hashlib.md5(...).hexdigest(): lower-case hex digits, one digest per content.
MD5(c) ==
    CASE c = "gzA" -> <<"a", "1">>
      [] c = "gzBad" -> <<"b", "2">>
      [] c = "junk" -> <<"c", "3">>
      [] c = "tsvA" -> <<"d", "4">>
      [] c = "gzLow" -> <<"f", "6">>
      [] c = "gzHigh" -> <<"a", "7">>
      [] c = "tsvLow" -> <<"b", "8">>
      [] c = "tsvHigh" -> <<"c", "9">>
      [] OTHER -> <<"e", "5">>

\* str.lower() and str.upper() on the characters of a checksum.
LowerChar(ch) ==
    CASE ch = "A" -> "a" [] ch = "B" -> "b" [] ch = "C" -> "c"
      [] ch = "D" -> "d" [] ch = "E" -> "e" [] ch = "F" -> "f" [] OTHER -> ch
UpperChar(ch) ==
    CASE ch = "a" -> "A" [] ch = "b" -> "B" [] ch = "c" -> "C"
      [] ch = "d" -> "D" [] ch = "e" -> "E" [] ch = "f" -> "F" [] OTHER -> ch
Lower(str) == [i \in DOMAIN str |-> LowerChar(str[i])]
Upper(str) == [i \in DOMAIN str |-> UpperChar(str[i])]

\* The body of the checksum file after strip().split(): a sequence of tokens.
ChecksumBodies ==
    {<<>>}
    \cup {<<MD5(c), ArchiveName>> : c \in {"gzA", "gzLow", "gzHigh", "junk"}}
    \cup {<<Upper(MD5(c)), ArchiveName>> : c \in {"gzA", "gzBad"}}

Last(seq) == seq[Len(seq)]

\* ClinVarDownloader._get_filename_from_url
get_filename_from_url(url) == Last(url)

\* Path.with_suffix(""): drop the last suffix of the name, if it has one.
with_suffix_empty(name) ==
    IF Len(name) > 1 THEN SubSeq(name, 1, Len(name) - 1) ELSE name

\* Path.exists() and Path.is_file() in the download directory.
Exists(fs, name) == name \in DOMAIN fs /\ fs[name] # NoFile
IsFile(fs, name) == Exists(fs, name) /\ fs[name] # Dir

(***************************************************************************)
(* Reports.  A report is a function from field names to values: counts and *)
(* percentages are rationals, a timestamp is the sequence of the tokens of *)
(* its ISO-8601 text, a distribution is the sequence of its (key, count)   *)
(* pairs in dict order, a key being the sequence of its characters.        *)
(* A Python value that crosses a call is a tagged tuple.                    *)
(***************************************************************************)
PyNone == <<"None">>
PyPath(name) == <<"path", name>>
PyBool(b) == <<"bool", b>>
PyExc(type) == <<"exc", type>>

\* datetime.now(timezone.utc).isoformat() at two moments of one day.
Timestamps ==
    {<<"2025-11-21", "T", "12", ":", "00", ":", "00", "+00", ":", "00">>,
     <<"2025-11-21", "T", "18", ":", "30", ":", "05", ".", "250000", "+00", ":", "00">>}

(***************************************************************************)
(* Tables.  A pandas DataFrame is its set of columns and the sequence of  *)
(* its rows, a row being a record over the columns.  A text cell is the   *)
(* sequence of its characters; a cell that is not a str carries its type  *)
(* as first element: NaN is the missing cell, PyInt(digits) a Python int. *)
(* The cells of VariationID and ConflictingInterpretations are integers   *)
(* (dtype int64, line 51).                                                *)
(***************************************************************************)
NaN == <<"#nan">>
PyInt(digits) == <<"#int">> \o digits
IsStr(cell) == cell = <<>> \/ Head(cell) \notin {"#nan", "#int"}

\* pd.isna(cell)
isna(cell) == cell = NaN

\* str(cell) of a cell that is not missing
str_of(cell) == IF IsStr(cell) THEN cell ELSE Tail(cell)

IntColumns == {"VariationID", "ConflictingInterpretations"}
TextColumns == {"Type", "ClinicalSignificance", "ReviewStatus"}

\* len(df), len(df.columns), df.empty
len(df) == Len(df.rows)
len_columns(df) == Cardinality(df.columns)
empty(df) == len(df) = 0 \/ len_columns(df) = 0

\* df[column] as the sequence of its cells
Column(df, column) == [i \in DOMAIN df.rows |-> df.rows[i][column]]

\* sum of a sequence of integers
RECURSIVE Sum(_)
Sum(seq) == IF seq = <<>> THEN 0 ELSE Head(seq) + Sum(Tail(seq))

\* Line 80 without the rounding.
round2_exact(x) == x

\* round(x, 2) of a rational x >= 0: to the nearest hundredth, a tie going
\* to the even one.
round2(x) ==
    LET scaled == RMul(x, FromInt(100))
        floor == scaled[1] \div scaled[2]
        twice_rem == 2 * (scaled[1] % scaled[2])
        up == \/ twice_rem > scaled[2]
              \/ twice_rem = scaled[2] /\ floor % 2 = 1
    IN  Rat(IF up THEN floor + 1 ELSE floor, 100)

\* df.isnull().sum().sum(): the missing cells (an int64 cell is never missing)
null_cells(df) ==
    Cardinality({<<i, c>> \in (DOMAIN df.rows) \X (df.columns \cap TextColumns) :
                    isna(df.rows[i][c])})

\* QualityChecker._calculate_null_percentage
calculate_null_percentage(df) ==
    IF empty(df) THEN FromInt(0)
    ELSE LET total_cells == len(df) * len_columns(df)
             null_percentage ==
                IF total_cells > 0
                THEN RMul(RDiv(FromInt(null_cells(df)), FromInt(total_cells)),
                          FromInt(100))
                ELSE FromInt(0)
         IN  round2(null_percentage)

\* df.duplicated(keep=False): is row i equal to any other row?
duplicated_keep_false(df, i) ==
    \E j \in DOMAIN df.rows : j # i /\ df.rows[j] = df.rows[i]

\* df.duplicated(): is row i equal to an earlier row?
duplicated(df, i) == \E j \in 1..(i - 1) : df.rows[j] = df.rows[i]

\* QualityChecker._calculate_duplicate_count
calculate_duplicate_count(df) ==
    IF empty(df) THEN 0
    ELSE Cardinality({i \in DOMAIN df.rows : duplicated(df, i)})

\* QualityChecker._calculate_conflicting_count
calculate_conflicting_count(df) ==
    IF "ConflictingInterpretations" \notin df.columns THEN 0
    ELSE Sum(Column(df, "ConflictingInterpretations"))

\* The keys of a sequence of cells, each once, in the order they first occur.
RECURSIVE Unique(_)
Unique(cells) ==
    IF cells = <<>> THEN <<>>
    ELSE LET front == Unique(SubSeq(cells, 1, Len(cells) - 1))
         IN  IF \E i \in DOMAIN front : front[i] = Last(cells)
             THEN front ELSE Append(front, Last(cells))

\* Insert a (key, count) pair behind the pairs whose count is not smaller.
RECURSIVE InsertByCount(_, _)
InsertByCount(sorted, pair) ==
    IF sorted = <<>> THEN <<pair>>
    ELSE IF Head(sorted)[2] >= pair[2]
         THEN <<Head(sorted)>> \o InsertByCount(Tail(sorted), pair)
         ELSE <<pair>> \o sorted

RECURSIVE SortByCount(_)
SortByCount(pairs) ==
    IF pairs = <<>> THEN <<>>
    ELSE InsertByCount(SortByCount(SubSeq(pairs, 1, Len(pairs) - 1)), Last(pairs))

\* value_counts(dropna=False): the missing cells are counted under their
\* own key.
value_counts_keep_missing(cells) ==
    LET keys == Unique(cells)
    IN  SortByCount([i \in DOMAIN keys |->
            <<keys[i], Cardinality({j \in DOMAIN cells : cells[j] = keys[i]})>>])

\* Series.value_counts().to_dict(): the cells that are not missing with the
\* number of times each occurs, the larger count first.
value_counts(cells) ==
    LET present == SelectSeq(cells, LAMBDA cell : ~isna(cell))
        keys == Unique(present)
    IN  SortByCount([i \in DOMAIN keys |->
            <<keys[i], Cardinality({j \in DOMAIN present : present[j] = keys[i]})>>])

\* QualityChecker._calculate_clinical_significance_distribution
calculate_clinical_significance_distribution(df) ==
    IF "ClinicalSignificance" \notin df.columns THEN <<>>
    ELSE value_counts(Column(df, "ClinicalSignificance"))

\* The star glyph of a review status.
Star == "*"

\* str(n) of an integer n >= 0
RECURSIVE IntToChars(_)
IntToChars(n) ==
    LET digit == <<"0", "1", "2", "3", "4", "5", "6", "7", "8", "9">>[(n % 10) + 1]
    IN  IF n < 10 THEN <<digit>> ELSE Append(IntToChars(n \div 10), digit)

\* Lines 140-145 putting a text without a star glyph into "no-review".
extract_stars_no_glyph_no_review(status_str) ==
    LET text == IF isna(status_str) THEN <<>> ELSE str_of(status_str)
        star_count == Cardinality({i \in DOMAIN text : text[i] = Star})
    IN  IF star_count = 0 THEN <<"n", "o", "-", "r", "e", "v", "i", "e", "w">>
        ELSE IntToChars(star_count) \o <<"-", "s", "t", "a", "r">>

\* extract_stars, lines 140-145
extract_stars(status_str) ==
    IF isna(status_str) THEN <<"n", "o", "-", "r", "e", "v", "i", "e", "w">>
    ELSE LET text == str_of(status_str)
             star_count == Cardinality({i \in DOMAIN text : text[i] = Star})
         IN  IntToChars(star_count) \o <<"-", "s", "t", "a", "r">>

\* Lines 137-138 taking an absent column for a column of missing cells.
calculate_review_status_distribution_absent_as_missing(df) ==
    LET cells == IF "ReviewStatus" \in df.columns THEN Column(df, "ReviewStatus")
                 ELSE [i \in DOMAIN df.rows |-> NaN]
    IN  value_counts([i \in DOMAIN cells |-> extract_stars(cells[i])])

\* QualityChecker._calculate_review_status_distribution
calculate_review_status_distribution(df) ==
    IF "ReviewStatus" \notin df.columns THEN <<>>
    ELSE LET cells == Column(df, "ReviewStatus")
         IN  value_counts([i \in DOMAIN cells |-> extract_stars(cells[i])])

\* QualityChecker.calculate_basic_metrics
calculate_basic_metrics(df) ==
    [row_count |-> FromInt(len(df)),
     column_count |-> FromInt(len_columns(df)),
     null_percentage |-> calculate_null_percentage(df),
     duplicate_count |-> FromInt(calculate_duplicate_count(df)),
     conflicting_count |-> FromInt(calculate_conflicting_count(df)),
     clinical_significance_distribution |->
        calculate_clinical_significance_distribution(df),
     review_status_distribution |-> calculate_review_status_distribution(df)]

\* A table of the given columns: each row is cut down to them.
MkTable(columns, rows) ==
    [columns |-> columns,
     rows |-> [i \in DOMAIN rows |-> [c \in columns |-> rows[i][c]]]]

Row(id, type, conflicts, significance, status) ==
    [VariationID |-> id, Type |-> type, ConflictingInterpretations |-> conflicts,
     ClinicalSignificance |-> significance, ReviewStatus |-> status]

Benign == <<"B", "e", "n", "i", "g", "n">>
FourStars == <<Star, Star, Star, Star>>

\* pd.read_csv of a data file that parses.  tsvA: 4 rows, 3 columns, one
\* missing cell, two 4-star rows.  tsvLow: one row, conflicting, both text
\* cells missing.  tsvHigh: one 4-star row, nothing missing, no conflict.
read_csv(c) ==
    MkTable({"ConflictingInterpretations", "ClinicalSignificance", "ReviewStatus"},
            CASE c = "tsvLow" -> <<Row(1, <<>>, 1, NaN, NaN)>>
              [] c = "tsvHigh" -> <<Row(1, <<>>, 0, Benign, FourStars)>>
              [] OTHER ->
                <<Row(1, <<>>, 0, Benign, FourStars),
                  Row(2, <<>>, 1, Benign, FourStars),
                  Row(3, <<>>, 0, Benign, <<"n", "a">>),
                  Row(4, <<>>, 0, <<"L", "i", "k", "e", "l", "y", " ", "b">>, NaN)>>)

\* load_variant_data and calculate_basic_metrics of a data file that parses.
MetricsOf(c) == calculate_basic_metrics(read_csv(c))

\* Line 231 looking the glyphs up, not the bucket.
FourStarKey_glyphs == FourStars

FourStarKey == <<"4", "-", "s", "t", "a", "r">>

\* dict.get(key, 0) on a distribution.
RECURSIVE DistGet(_, _)
DistGet(dist, key) ==
    IF dist = <<>> THEN 0
    ELSE IF Last(dist)[1] = key THEN Last(dist)[2]
    ELSE DistGet(SubSeq(dist, 1, Len(dist) - 1), key)

\* QualityChecker.generate_report, from the basic metrics and the clock.
generate_report(metrics, now) ==
    LET null_percentage_avg == metrics["null_percentage"]
        review_dist == Get(metrics, "review_status_distribution", <<>>)
        four_star_count == DistGet(review_dist, FourStarKey)
        four_star_percentage ==
            IF RLt(FromInt(0), metrics["row_count"])
            THEN RMul(RDiv(FromInt(four_star_count), metrics["row_count"]),
                      FromInt(100))
            ELSE FromInt(0)
        report ==
            [timestamp |-> now,
             row_count |-> metrics["row_count"],
             column_count |-> metrics["column_count"],
             null_percentage_avg |-> null_percentage_avg,
             duplicate_count |-> metrics["duplicate_count"],
             conflicting_count |-> metrics["conflicting_count"],
             four_star_percentage |-> four_star_percentage,
             clinical_significance_distribution |->
                metrics["clinical_significance_distribution"],
             review_status_distribution |-> metrics["review_status_distribution"]]
    IN  [k \in DOMAIN report \cup {"quality_score"} |->
            IF k = "quality_score" THEN calculate_quality_score(report)
            ELSE report[k]]

\* str.replace(old, new) on a sequence of characters or tokens.
Replace(str, old, new) == [i \in DOMAIN str |-> IF str[i] = old THEN new ELSE str[i]]

\* str.split(sep)[0]: what precedes the first sep.
RECURSIVE SplitFirst(_, _)
SplitFirst(str, sep) ==
    IF str = <<>> \/ Head(str) = sep THEN <<>>
    ELSE <<Head(str)>> \o SplitFirst(Tail(str), sep)

\* Lines 277-280 taking the date from the clock, whatever the report says.
report_filename_wall_clock(report, now) ==
    <<"quality_report_">> \o SplitFirst(Replace(Replace(now, ":", "-"), ".", "-"), "T")
        \o <<".json">>

\* QualityChecker.save_report: the name of the file the report is written to.
report_filename(report, now) ==
    LET timestamp == Get(report, "timestamp", now)
        timestamp_str == SplitFirst(Replace(Replace(timestamp, ":", "-"), ".", "-"), "T")
    IN  <<"quality_report_">> \o timestamp_str \o <<".json">>

DistFields == {"clinical_significance_distribution", "review_status_distribution"}

\* json.dump of a dict: a member per item, in order, the key written as a
\* JSON string (the decimal text of a key that is an int).
json_object(dist) == [i \in DOMAIN dist |-> <<str_of(dist[i][1]), dist[i][2]>>]

\* json.dump(report, f, indent=2), line 286: the document written.
json_dump(report) ==
    [k \in DOMAIN report |->
        IF k \in DistFields THEN json_object(report[k]) ELSE report[k]]

\* d[key] = value on a dict kept as the sequence of its items.
PyDictSet(d, key, value) ==
    IF \E i \in DOMAIN d : d[i][1] = key
    THEN [i \in DOMAIN d |-> IF d[i][1] = key THEN <<key, value>> ELSE d[i]]
    ELSE Append(d, <<key, value>>)

\* json.load of an object: its members in order into a dict, every key a str.
RECURSIVE json_load_object(_)
json_load_object(members) ==
    IF members = <<>> THEN <<>>
    ELSE PyDictSet(json_load_object(SubSeq(members, 1, Len(members) - 1)),
                   Last(members)[1], Last(members)[2])

\* json.load(f) of a report document.
json_load(doc) ==
    [k \in DOMAIN doc |->
        IF k \in DistFields THEN json_load_object(doc[k]) ELSE doc[k]]

\* Lines 285-286 leaving a file that is already there as it is.
save_report_keep_existing(dir, report, now) ==
    LET filename == report_filename(report, now)
    IN  [n \in DOMAIN dir \cup {filename} |->
            IF n \in DOMAIN dir THEN dir[n] ELSE json_dump(report)]

\* QualityChecker.save_report: the files of the report directory after the
\* write of lines 285-286.
save_report(dir, report, now) ==
    LET filename == report_filename(report, now)
    IN  [n \in DOMAIN dir \cup {filename} |->
            IF n = filename THEN json_dump(report) ELSE dir[n]]

(***************************************************************************)
(* The packager's pure parts.                                              *)
(***************************************************************************)
required_fields == <<"timestamp", "row_count", "column_count", "quality_score">>

\* Lines 202-209 with quality_score left out of required_fields.
missing_fields_without_score(report) ==
    SelectSeq(<<"timestamp", "row_count", "column_count">>,
              LAMBDA f : f \notin DOMAIN report)

\* QuiltPackager.validate_quality_report: the fields that are missing.
missing_fields(report) ==
    SelectSeq(required_fields, LAMBDA f : f \notin DOMAIN report)

DictSet(m, k, v) == [x \in DOMAIN m \cup {k} |-> IF x = k THEN v ELSE m[x]]

RECURSIVE AddClinSig(_, _)
AddClinSig(metadata, dist) ==
    IF dist = <<>> THEN metadata
    ELSE AddClinSig(
            DictSet(metadata,
                    <<"clin_sig_">> \o Replace(Lower(Head(dist)[1]), " ", "_"),
                    Head(dist)[2]),
            Tail(dist))

RECURSIVE AddReview(_, _)
AddReview(metadata, dist) ==
    IF dist = <<>> THEN metadata
    ELSE AddReview(
            DictSet(metadata,
                    <<"review_">> \o Replace(Lower(Head(dist)[1]), "-", "_"),
                    Head(dist)[2]),
            Tail(dist))

ScalarFields ==
    {"timestamp", "quality_score", "row_count", "column_count",
     "null_percentage_avg", "duplicate_count", "conflicting_count",
     "four_star_percentage"}

\* Lines 257 and 262: key.lower() raises AttributeError on a key that is
\* not a str.
generate_metadata_raises(report) ==
    \E f \in DistFields \cap DOMAIN report :
        \E i \in DOMAIN report[f] : ~IsStr(report[f][i][1])

\* QuiltPackager._generate_metadata_from_report, when no key makes it raise
generate_metadata_from_report(report) ==
    LET metadata == [k \in {<<f>> : f \in ScalarFields} |-> Get(report, k[1], PyNone)]
        clin_dist == Get(report, "clinical_significance_distribution", <<>>)
        review_dist == Get(report, "review_status_distribution", <<>>)
    IN  AddReview(AddClinSig(metadata, clin_dist), review_dist)

(***************************************************************************)
(* Configurations.  The quilt section is a function from its keys; a       *)
(* section without "bucket" makes QuiltPackager.__init__ raise KeyError.   *)
(***************************************************************************)
QuiltFull ==
    [bucket |-> "clinvar-bucket", registry |-> "s3://clinvar-bucket",
     package_name |-> "biodata/clinvar", push_to_registry |-> TRUE]
QuiltConfigs ==
    {QuiltFull,
     [QuiltFull EXCEPT !.push_to_registry = FALSE],
     [k \in DOMAIN QuiltFull \ {"push_to_registry"} |-> QuiltFull[k]],
     [k \in DOMAIN QuiltFull \ {"bucket"} |-> QuiltFull[k]]}
Configs == [source_url : Urls, checksum_url : {ChecksumUrl}, quilt : QuiltConfigs]

\* QuiltPackager.__init__: the keys it indexes, and the push flag it reads.
QuiltInitOk(cfg) == {"bucket", "registry", "package_name"} \subseteq DOMAIN cfg.quilt
PushEnabled_default_true(cfg) == Get(cfg.quilt, "push_to_registry", TRUE)
PushEnabled(cfg) == Get(cfg.quilt, "push_to_registry", FALSE)

DefaultMaxRetries == 3

\* str.split(sep): the pieces between the separators, at least one piece.
RECURSIVE Split(_, _)
Split(chars, sep) ==
    IF \A i \in DOMAIN chars : chars[i] # sep THEN <<chars>>
    ELSE LET first == SplitFirst(chars, sep)
         IN  <<first>> \o Split(SubSeq(chars, Len(first) + 2, Len(chars)), sep)

\* Lines 38-47 keeping a name that has a separator as it is.
package_name_keep_all(package_full_name) ==
    IF Len(Split(package_full_name, "/")) >= 2 THEN package_full_name
    ELSE <<"b", "i", "o", "d", "a", "t", "a">> \o <<"/">> \o package_full_name

\* QuiltPackager.__init__, lines 38-47: self.package_name
package_name(package_full_name) ==
    LET parts == Split(package_full_name, "/")
        namespace == IF Len(parts) >= 2 THEN parts[1]
                     ELSE <<"b", "i", "o", "d", "a", "t", "a">>
        package == IF Len(parts) >= 2 THEN parts[2] ELSE package_full_name
    IN  namespace \o <<"/">> \o package

(***************************************************************************)
(* Packages, locals and the log.                                           *)
(***************************************************************************)
NoPkg == [made |-> FALSE, entries |-> {}, meta |-> PyNone]
NewPkg == [made |-> TRUE, entries |-> {}, meta |-> PyNone]

\* The states of the quality checker and of the packager's name before
\* anything is called.
NoTable == MkTable({}, <<>>)
QcInit == [pc |-> "idle", report |-> <<>>, saved |-> <<>>, path |-> PyNone,
           loaded |-> <<>>, metadata |-> PyNone]
NoDir == [exists |-> FALSE, files |-> <<>>]
PkInit == [package_name |-> <<>>, package |-> PyNone]

\* No checksum body is kept on the server side: each request for the
\* checksum file is answered freely.
NoRemote == <<>>

\* main() before it is entered: argv is the command line, file the state of
\* the configuration file and file_level the logging level it gives, flag
\* is args.log_level, level the level logging is set up with, exit the
\* process exit code.
MnInit == [pc |-> "none", argv |-> "none", file |-> "none", file_level |-> PyNone,
           flag |-> PyNone, level |-> PyNone, error |-> PyNone, exit |-> PyNone]

LocInit ==
    [url |-> <<>>, max_retries |-> 0, attempt |-> 0, gz_filepath |-> PyNone,
     expected_checksum |-> <<>>, data_file |-> PyNone, quality_report |-> PyNone,
     pkg |-> NoPkg, error |-> PyNone]

NoOutcome == [kind |-> "none", value |-> PyNone, of |-> "none"]
Returned(v) == [kind |-> "returned", value |-> v, of |-> stack[1]]
Raised(type) == [kind |-> "raised", value |-> PyExc(type), of |-> stack[1]]

Ev(name, arg) == <<name, arg>>
Top == Last(stack)

\* The frame on top returns v to its caller; l and lg are the locals and the
\* log it leaves.  A step of run that returns is logged as successful
\* (run_pipeline.py lines 122 and 171).
Return(v, l, lg) ==
    IF Len(stack) = 1
    THEN /\ stack' = <<>>
         /\ pc' = "idle"
         /\ outcome' = Returned(v)
         /\ loc' = l
         /\ log' = lg
    ELSE /\ stack' = SubSeq(stack, 1, Len(stack) - 1)
         /\ outcome' = outcome
         /\ CASE Top = "download_file" ->
                    /\ pc' = "dav_checksum"
                    /\ loc' = [l EXCEPT !.gz_filepath = v]
                    /\ log' = lg
              [] Top = "download_and_verify" ->
                    /\ pc' = "run_assess"
                    /\ loc' = [l EXCEPT !.data_file = v]
                    /\ log' = Append(lg, Ev("download_successful", v))
              [] Top = "push_to_registry" ->
                    /\ pc' = "fpw_done"
                    /\ loc' = l
                    /\ log' = lg
              [] OTHER ->
                    /\ pc' = "run_success"
                    /\ loc' = l
                    /\ log' = Append(lg, Ev("package_successful", v))

\* An exception leaves the frame on top.  No frame between it and run
\* handles it (download_data, create_package and push_to_registry log and
\* re-raise); run catches every Exception and keeps its text in results.
Raise(type, l, lg) ==
    IF stack[1] = "run"
    THEN /\ stack' = <<"run">>
         /\ pc' = "run_except"
         /\ outcome' = outcome
         /\ loc' = [l EXCEPT !.error = PyExc(type)]
         /\ log' = IF Len(stack) = 1 THEN lg
                   ELSE IF stack[2] = "download_and_verify"
                   THEN Append(lg, Ev("download_failed", PyExc(type)))
                   ELSE Append(lg, Ev("package_failed", PyExc(type)))
    ELSE /\ stack' = <<>>
         /\ pc' = "idle"
         /\ outcome' = Raised(type)
         /\ loc' = l
         /\ log' = lg

env == <<config, sc_report, sc_result, qc_df, qc, alt_dir, pk, mn, remote>>

(***************************************************************************)
(* ClinVarDownloader.download_file                                         *)
(***************************************************************************)
\* A caller outside the model calls download_file(url, max_retries).
CallDownloadFile(url, max_retries) ==
    /\ pc = "idle" /\ calls < MaxCalls
    /\ calls' = calls + 1
    /\ stack' = <<"download_file">>
    /\ pc' = "df_start"
    /\ loc' = [LocInit EXCEPT !.url = url, !.max_retries = max_retries]
    /\ outcome' = NoOutcome
    /\ log' = <<>>
    /\ UNCHANGED <<dl_dir, out_dir, registry, env>>

\* Lines 57-63 without the early return: the request is made and the file
\* overwritten although it is there.
DfSkipExisting_refetch ==
    /\ pc = "df_start"
    /\ Exists(dl_dir, get_filename_from_url(loc.url))
    /\ \E content \in ArchiveContents :
            dl_dir' = [dl_dir EXCEPT ![get_filename_from_url(loc.url)] = content]
    /\ Return(PyPath(get_filename_from_url(loc.url)), loc,
              Append(log, Ev("requests.get", loc.url)))
    /\ UNCHANGED <<out_dir, registry, calls, env>>

\* Lines 57-63: the file is there, return its path.
DfSkipExisting ==
    /\ pc = "df_start"
    /\ Exists(dl_dir, get_filename_from_url(loc.url))
    /\ Return(PyPath(get_filename_from_url(loc.url)), loc,
              Append(log, Ev("skip_download", get_filename_from_url(loc.url))))
    /\ UNCHANGED <<dl_dir, out_dir, registry, calls, env>>

\* Line 65: the file is not there, enter the loop.
DfEnterLoop ==
    /\ pc = "df_start"
    /\ ~Exists(dl_dir, get_filename_from_url(loc.url))
    /\ pc' = "df_loop"
    /\ loc' = [loc EXCEPT !.attempt = 0]
    /\ UNCHANGED <<dl_dir, out_dir, registry, stack, outcome, log, calls, env>>

\* Lines 67-74: an attempt whose request succeeds writes the file and returns.
DfAttemptOk(content) ==
    /\ pc = "df_loop"
    /\ loc.attempt < loc.max_retries
    /\ dl_dir' = [dl_dir EXCEPT ![get_filename_from_url(loc.url)] = content]
    /\ Return(PyPath(get_filename_from_url(loc.url)), loc,
              Append(log, Ev("requests.get", loc.url)))
    /\ UNCHANGED <<out_dir, registry, calls, env>>

\* Line 78 with a linear backoff.
wait_time_linear(attempt) == 2 * attempt

\* Line 78: wait_time = 2 ** attempt
wait_time(attempt) == 2 ^ attempt

\* Lines 76-83: the request fails and another attempt follows after a sleep.
DfAttemptRetry ==
    /\ pc = "df_loop"
    /\ loc.attempt < loc.max_retries
    /\ loc.attempt < loc.max_retries - 1
    /\ log' = log \o <<Ev("requests.get", loc.url),
                       Ev("sleep", <<wait_time(loc.attempt)>>)>>
    /\ loc' = [loc EXCEPT !.attempt = loc.attempt + 1]
    /\ UNCHANGED <<dl_dir, out_dir, registry, stack, pc, outcome, calls, env>>

\* Lines 84-86: the request of the last attempt fails, the error is re-raised.
DfAttemptRaise ==
    /\ pc = "df_loop"
    /\ loc.attempt < loc.max_retries
    /\ ~(loc.attempt < loc.max_retries - 1)
    /\ Raise("RequestException", loc, Append(log, Ev("requests.get", loc.url)))
    /\ UNCHANGED <<dl_dir, out_dir, registry, calls, env>>

\* range(max_retries) is empty: the function falls off its end, returning None.
DfLoopEmpty ==
    /\ pc = "df_loop"
    /\ ~(loc.attempt < loc.max_retries)
    /\ Return(PyNone, loc, log)
    /\ UNCHANGED <<dl_dir, out_dir, registry, calls, env>>

(***************************************************************************)
(* ClinVarDownloader.download_and_verify                                   *)
(***************************************************************************)
CallDownloadAndVerify ==
    /\ pc = "idle" /\ calls < MaxCalls
    /\ calls' = calls + 1
    /\ stack' = <<"download_and_verify">>
    /\ pc' = "dav_start"
    /\ loc' = LocInit
    /\ outcome' = NoOutcome
    /\ log' = <<>>
    /\ UNCHANGED <<dl_dir, out_dir, registry, env>>

\* Line 205: gz_filepath = self.download_file(self.source_url)
DavDownloadFile ==
    /\ pc = "dav_start"
    /\ stack' = Append(stack, "download_file")
    /\ pc' = "df_start"
    /\ loc' = [loc EXCEPT !.url = config.source_url, !.max_retries = DefaultMaxRetries]
    /\ UNCHANGED <<dl_dir, out_dir, registry, outcome, log, calls, env>>

\* download_checksum with one retry: the first failure of the request is
\* followed by a second request, the second failure is raised.
DavChecksumFails_retry ==
    /\ pc = "dav_checksum"
    /\ IF \A i \in DOMAIN log : log[i] # <<"requests.get", config.checksum_url>>
       THEN /\ log' = Append(log, Ev("requests.get", config.checksum_url))
            /\ UNCHANGED <<stack, pc, outcome, loc>>
       ELSE Raise("RequestException", loc,
                  Append(log, Ev("requests.get", config.checksum_url)))
    /\ UNCHANGED <<dl_dir, out_dir, registry, calls, env>>

\* Line 208 and download_checksum: the request fails.
DavChecksumFails ==
    /\ pc = "dav_checksum"
    /\ Raise("RequestException", loc,
             Append(log, Ev("requests.get", config.checksum_url)))
    /\ UNCHANGED <<dl_dir, out_dir, registry, calls, env>>

\* download_checksum: the first token of the body, IndexError if it has none.
DavChecksum(body) ==
    /\ pc = "dav_checksum"
    /\ IF body = <<>>
       THEN Raise("IndexError", loc,
                  Append(log, Ev("requests.get", config.checksum_url)))
       ELSE /\ pc' = "dav_validate"
            /\ loc' = [loc EXCEPT !.expected_checksum = body[1]]
            /\ log' = Append(log, Ev("requests.get", config.checksum_url))
            /\ UNCHANGED <<stack, outcome>>
    /\ UNCHANGED <<dl_dir, out_dir, registry, calls, env>>

\* Line 150 comparing the checksums as they are.
checksum_mismatch_case_sensitive(actual_checksum, expected_checksum) ==
    actual_checksum # expected_checksum

\* validate_checksum: is the comparison of line 150 a mismatch?
checksum_mismatch(actual_checksum, expected_checksum) ==
    Lower(actual_checksum) # Lower(expected_checksum)

\* Line 209 left out: the archive goes to decompression unvalidated.
DavValidate_skipped ==
    /\ pc = "dav_validate"
    /\ pc' = "dav_decompress"
    /\ UNCHANGED <<dl_dir, out_dir, registry, stack, outcome, loc, log, calls, env>>

\* Line 209 with a clean-up: on a mismatch the archive is deleted before
\* the error is raised.
DavValidate_unlink ==
    /\ pc = "dav_validate"
    /\ LET name == loc.gz_filepath[2]
       IN  IF ~Exists(dl_dir, name)
           THEN Raise("FileNotFoundError", loc, log) /\ UNCHANGED dl_dir
           ELSE IF ~IsFile(dl_dir, name)
           THEN Raise("IsADirectoryError", loc, log) /\ UNCHANGED dl_dir
           ELSE LET lg == Append(log, Ev("md5_compare",
                                    <<MD5(dl_dir[name]), loc.expected_checksum>>))
                IN  IF checksum_mismatch(MD5(dl_dir[name]), loc.expected_checksum)
                    THEN /\ Raise("ValueError: Checksum mismatch", loc, lg)
                         /\ dl_dir' = [dl_dir EXCEPT ![name] = NoFile]
                    ELSE /\ pc' = "dav_decompress"
                         /\ log' = lg
                         /\ UNCHANGED <<stack, outcome, loc, dl_dir>>
    /\ UNCHANGED <<out_dir, registry, calls, env>>

\* Line 209 and validate_checksum, calculate_md5.
DavValidate ==
    /\ pc = "dav_validate"
    /\ LET name == loc.gz_filepath[2]
       IN  IF ~Exists(dl_dir, name)
           THEN Raise("FileNotFoundError", loc, log)
           ELSE IF ~IsFile(dl_dir, name)
           THEN Raise("IsADirectoryError", loc, log)
           ELSE LET lg == Append(log, Ev("md5_compare",
                                    <<MD5(dl_dir[name]), loc.expected_checksum>>))
                IN  IF checksum_mismatch(MD5(dl_dir[name]), loc.expected_checksum)
                    THEN Raise("ValueError: Checksum mismatch", loc, lg)
                    ELSE /\ pc' = "dav_decompress"
                         /\ log' = lg
                         /\ UNCHANGED <<stack, outcome, loc>>
    /\ UNCHANGED <<dl_dir, out_dir, registry, calls, env>>

\* Line 212 and decompress_gzip.
DavDecompress ==
    /\ pc = "dav_decompress"
    /\ LET name == loc.gz_filepath[2]
           output_path == with_suffix_empty(name)
           lg == Append(log, Ev("decompress_gzip", name))
       IN  IF IsGzip(dl_dir[name])
           THEN /\ dl_dir' = [dl_dir EXCEPT ![output_path] = Gunzip(dl_dir[name])]
                /\ Return(PyPath(output_path), loc, lg)
           ELSE /\ Raise("BadGzipFile", loc, lg)
                /\ UNCHANGED dl_dir
    /\ UNCHANGED <<out_dir, registry, calls, env>>

(***************************************************************************)
(* QuiltPackager.push_to_registry and full_package_workflow                *)
(***************************************************************************)
\* A caller outside the model calls push_to_registry(pkg) on a package.
CallPushToRegistry ==
    /\ pc = "idle" /\ calls < MaxCalls
    /\ QuiltInitOk(config)
    /\ calls' = calls + 1
    /\ stack' = <<"push_to_registry">>
    /\ pc' = "ptr_start"
    /\ loc' = [LocInit EXCEPT !.pkg = NewPkg]
    /\ outcome' = NoOutcome
    /\ log' = <<>>
    /\ UNCHANGED <<dl_dir, out_dir, registry, env>>

\* Lines 148-150: push disabled, return True without touching the registry.
PtrDisabled ==
    /\ pc = "ptr_start"
    /\ ~PushEnabled(config)
    /\ Return(PyBool(TRUE), loc, log)
    /\ UNCHANGED <<dl_dir, out_dir, registry, calls, env>>

\* Lines 154-163: pkg.push succeeds.
PtrPushOk ==
    /\ pc = "ptr_start"
    /\ PushEnabled(config)
    /\ registry' = loc.pkg
    /\ Return(PyBool(TRUE), loc,
              Append(log, Ev("pkg.push", <<config.quilt["registry"]>>)))
    /\ UNCHANGED <<dl_dir, out_dir, calls, env>>

\* Lines 165-167 without the raise of line 167: the error is logged and the
\* function returns True.
PtrPushFails_swallow ==
    /\ pc = "ptr_start"
    /\ PushEnabled(config)
    /\ Return(PyBool(TRUE), loc,
              Append(log, Ev("pkg.push", <<config.quilt["registry"]>>)))
    /\ UNCHANGED <<dl_dir, out_dir, registry, calls, env>>

\* Lines 165-167: pkg.push raises, the error is logged and re-raised.
PtrPushFails ==
    /\ pc = "ptr_start"
    /\ PushEnabled(config)
    /\ Raise("PushError", loc,
             Append(log, Ev("pkg.push", <<config.quilt["registry"]>>)))
    /\ UNCHANGED <<dl_dir, out_dir, registry, calls, env>>

\* A caller outside the model calls get_registry_packages().
CallGetRegistryPackages ==
    /\ pc = "idle" /\ calls < MaxCalls
    /\ QuiltInitOk(config)
    /\ calls' = calls + 1
    /\ stack' = <<"get_registry_packages">>
    /\ pc' = "grp_start"
    /\ loc' = LocInit
    /\ outcome' = NoOutcome
    /\ log' = <<>>
    /\ UNCHANGED <<dl_dir, out_dir, registry, env>>

PyList(items) == <<"list", items>>

\* Lines 225-228: quilt3.list_packages succeeds, its list is returned.
GrpListOk ==
    /\ pc = "grp_start"
    /\ Return(PyList(IF registry.made THEN <<config.quilt["package_name"]>>
                     ELSE <<>>),
              loc, Append(log, Ev("quilt3.list_packages",
                                  <<config.quilt["registry"]>>)))
    /\ UNCHANGED <<dl_dir, out_dir, registry, calls, env>>

\* Lines 230-232: quilt3.list_packages raises; the exception e is caught,
\* a warning is logged and the empty list returned.
GrpListFails ==
    /\ pc = "grp_start"
    /\ Return(PyList(<<>>), [loc EXCEPT !.error = PyExc("ListError")],
              Append(log, Ev("quilt3.list_packages", <<config.quilt["registry"]>>)))
    /\ UNCHANGED <<dl_dir, out_dir, registry, calls, env>>

\* The reports a caller can pass: a generated report with some of the
\* required fields removed.
ReportArgs ==
    LET full == generate_report(MetricsOf("tsvA"),
                    <<"2025-11-21", "T", "12", ":", "00", ":", "00", "+00", ":", "00">>)
    IN  {[k \in DOMAIN full \ gone |-> full[k]] :
            gone \in SUBSET {required_fields[i] : i \in DOMAIN required_fields}}

\* A caller outside the model calls full_package_workflow(data_file, report).
CallFullPackageWorkflow(data_file, report) ==
    /\ pc = "idle" /\ calls < MaxCalls
    /\ QuiltInitOk(config)
    /\ calls' = calls + 1
    /\ stack' = <<"full_package_workflow">>
    /\ pc' = "fpw_start"
    /\ loc' = [LocInit EXCEPT !.data_file = PyPath(data_file),
                              !.quality_report = <<"report", report>>]
    /\ outcome' = NoOutcome
    /\ log' = <<>>
    /\ UNCHANGED <<dl_dir, out_dir, registry, env>>

\* Lines 310-311: validate_data_file, then validate_quality_report.
FpwValidate ==
    /\ pc = "fpw_start"
    /\ LET data_file == loc.data_file[2]
           report == loc.quality_report[2]
       IN  IF ~Exists(dl_dir, data_file)
           THEN Raise("FileNotFoundError", loc, log)
           ELSE IF ~IsFile(dl_dir, data_file)
           THEN Raise("ValueError: not a file", loc, log)
           ELSE IF missing_fields(report) # <<>>
           THEN Raise("ValueError: missing fields", loc, log)
           ELSE /\ pc' = "fpw_build"
                /\ UNCHANGED <<stack, outcome, loc, log>>
    /\ UNCHANGED <<dl_dir, out_dir, registry, calls, env>>

\* Lines 314-320: create_package, add_data_file, add_quality_report; then
\* line 323 calls push_to_registry.
FpwBuild ==
    /\ pc = "fpw_build"
    /\ LET data_file == loc.data_file[2]
           metadata == generate_metadata_from_report(loc.quality_report[2])
       IN  IF generate_metadata_raises(loc.quality_report[2])
           THEN Raise("AttributeError", loc,
                      log \o <<Ev("quilt3.Package", <<>>), Ev("pkg.set", data_file)>>)
           ELSE /\ log' = log \o <<Ev("quilt3.Package", <<>>),
                                   Ev("pkg.set", data_file),
                                   Ev("pkg.set_meta", <<>>)>>
                /\ loc' = [loc EXCEPT !.pkg = [made |-> TRUE,
                                               entries |-> {data_file},
                                               meta |-> <<"meta", metadata>>]]
                /\ stack' = Append(stack, "push_to_registry")
                /\ pc' = "ptr_start"
                /\ UNCHANGED outcome
    /\ UNCHANGED <<dl_dir, out_dir, registry, calls, env>>

\* Lines 325-326: return True.
FpwDone ==
    /\ pc = "fpw_done"
    /\ Return(PyBool(TRUE), loc, log)
    /\ UNCHANGED <<dl_dir, out_dir, registry, calls, env>>

(***************************************************************************)
(* ClinVarPipeline.run                                                     *)
(***************************************************************************)
CallRun ==
    /\ pc = "idle" /\ calls < MaxCalls
    /\ calls' = calls + 1
    /\ stack' = <<"run">>
    /\ pc' = "run_start"
    /\ loc' = LocInit
    /\ outcome' = NoOutcome
    /\ log' = <<>>
    /\ UNCHANGED <<dl_dir, out_dir, registry, env>>

\* Line 213: initialize_modules; a constructor that raises lands in except.
RunInitialize ==
    /\ pc = "run_start"
    /\ IF QuiltInitOk(config)
       THEN /\ pc' = "run_download"
            /\ log' = Append(log, Ev("initialize_modules", <<>>))
            /\ UNCHANGED <<stack, outcome, loc>>
       ELSE Raise("KeyError", loc, Append(log, Ev("initialize_modules", <<>>)))
    /\ UNCHANGED <<dl_dir, out_dir, registry, calls, env>>

\* Line 216 and download_data: call download_and_verify.
RunDownload ==
    /\ pc = "run_download"
    /\ log' = Append(log, Ev("download_data", <<>>))
    /\ stack' = Append(stack, "download_and_verify")
    /\ pc' = "dav_start"
    /\ UNCHANGED <<dl_dir, out_dir, registry, loc, outcome, calls, env>>

\* Line 220, assess_quality and QualityChecker.assess_quality: load the
\* table, generate the report at time now, save it.
RunAssess(now) ==
    /\ pc = "run_assess"
    /\ LET data_file == loc.data_file[2]
           lg == Append(log, Ev("assess_quality", loc.data_file))
       IN  IF ~Exists(dl_dir, data_file)
           THEN /\ Raise("FileNotFoundError", loc,
                         Append(lg, Ev("assess_failed", <<>>)))
                /\ UNCHANGED out_dir
           ELSE IF ~Parses(dl_dir[data_file])
           THEN /\ Raise("ValueError: parse", loc,
                         Append(lg, Ev("assess_failed", <<>>)))
                /\ UNCHANGED out_dir
           ELSE LET report == generate_report(MetricsOf(dl_dir[data_file]), now)
                IN  /\ out_dir' = save_report(out_dir, report, now)
                    /\ loc' = [loc EXCEPT !.quality_report = <<"report", report>>]
                    /\ log' = Append(lg, Ev("assess_successful", <<>>))
                    /\ pc' = "run_publish"
                    /\ UNCHANGED <<stack, outcome>>
    /\ UNCHANGED <<dl_dir, registry, calls, env>>

\* Line 225 handing the archive, not the data file, to the packager.
RunPublish_archive ==
    /\ pc = "run_publish"
    /\ log' = Append(log, Ev("create_package", loc.gz_filepath))
    /\ stack' = Append(stack, "full_package_workflow")
    /\ pc' = "fpw_start"
    /\ loc' = [loc EXCEPT !.data_file = loc.gz_filepath]
    /\ UNCHANGED <<dl_dir, out_dir, registry, outcome, calls, env>>

\* The quality thresholds of the configuration ("min_quality_score": 75 in
\* the configurations of the tests); no line of the program reads them.
min_quality_score == 75

\* Line 225 made conditional on the threshold: a report scoring below
\* min_quality_score raises instead of being packaged.
RunPublish_gated ==
    /\ pc = "run_publish"
    /\ IF RLt(loc.quality_report[2].quality_score, FromInt(min_quality_score))
       THEN Raise("ValueError: quality", loc, log)
       ELSE /\ log' = Append(log, Ev("create_package", loc.data_file))
            /\ stack' = Append(stack, "full_package_workflow")
            /\ pc' = "fpw_start"
            /\ UNCHANGED <<loc, outcome>>
    /\ UNCHANGED <<dl_dir, out_dir, registry, calls, env>>

\* Line 225 and create_package: call full_package_workflow.
RunPublish ==
    /\ pc = "run_publish"
    /\ log' = Append(log, Ev("create_package", loc.data_file))
    /\ stack' = Append(stack, "full_package_workflow")
    /\ pc' = "fpw_start"
    /\ UNCHANGED <<dl_dir, out_dir, registry, loc, outcome, calls, env>>

\* Lines 226-232: all three steps are done, return True.
RunSuccess ==
    /\ pc = "run_success"
    /\ Return(PyBool(TRUE), loc, log)
    /\ UNCHANGED <<dl_dir, out_dir, registry, calls, env>>

\* Lines 234-239 returning True from the except branch.
RunExcept_true ==
    /\ pc = "run_except"
    /\ Return(PyBool(TRUE), loc, Append(log, Ev("pipeline_failed", loc.error)))
    /\ UNCHANGED <<dl_dir, out_dir, registry, calls, env>>

\* Lines 234-239: except Exception, return False.
RunExcept ==
    /\ pc = "run_except"
    /\ Return(PyBool(FALSE), loc, Append(log, Ev("pipeline_failed", loc.error)))
    /\ UNCHANGED <<dl_dir, out_dir, registry, calls, env>>

(***************************************************************************)
(* The specification of the downloader, the packager and the pipeline.     *)
(***************************************************************************)
NoReport == <<>>

Init ==
    /\ config \in Configs
    /\ dl_dir = [n \in FileNames |-> IF n = DirName THEN Dir ELSE NoFile]
    /\ out_dir = <<>>
    /\ registry = NoPkg
    /\ stack = <<>>
    /\ pc = "idle"
    /\ loc = LocInit
    /\ outcome = NoOutcome
    /\ log = <<>>
    /\ calls = 0
    /\ sc_report = NoReport
    /\ sc_result = PyNone
    /\ qc_df = NoTable
    /\ qc = QcInit
    /\ alt_dir = NoDir
    /\ pk = PkInit
    /\ mn = MnInit
    /\ remote = NoRemote

Next ==
    \/ \E url \in Urls, max_retries \in 0..MaxRetriesArg :
            CallDownloadFile(url, max_retries)
    \/ DfSkipExisting
    \/ DfEnterLoop
    \/ \E content \in ArchiveContents : DfAttemptOk(content)
    \/ DfAttemptRetry
    \/ DfAttemptRaise
    \/ DfLoopEmpty
    \/ CallDownloadAndVerify
    \/ DavDownloadFile
    \/ DavChecksumFails
    \/ \E body \in ChecksumBodies : DavChecksum(body)
    \/ DavValidate
    \/ DavDecompress
    \/ CallPushToRegistry
    \/ PtrDisabled
    \/ PtrPushOk
    \/ PtrPushFails
    \/ CallGetRegistryPackages
    \/ GrpListOk
    \/ GrpListFails
    \/ \E data_file \in {DataName, DirName}, report \in ReportArgs :
            CallFullPackageWorkflow(data_file, report)
    \/ FpwValidate
    \/ FpwBuild
    \/ FpwDone
    \/ CallRun
    \/ RunInitialize
    \/ RunDownload
    \/ \E now \in Timestamps : RunAssess(now)
    \/ RunPublish
    \/ RunSuccess
    \/ RunExcept

vars == <<config, dl_dir, out_dir, registry, stack, pc, loc, outcome, log, calls,
          sc_report, sc_result, qc_df, qc, alt_dir, pk, mn, remote>>

Spec == Init /\ [][Next]_vars

(***************************************************************************)
(* scripts/run_pipeline.py: main, load_config and ClinVarPipeline.__init__ *)
(***************************************************************************)
PyStr(s) == <<"str", s>>

\* The choices of --log-level and the default argparse gives args.log_level
\* when the flag is absent (lines 275-280).
LogLevelChoices == {"DEBUG", "INFO", "WARNING", "ERROR", "CRITICAL"}
LogLevelDefault == PyStr("INFO")

\* Command lines: -h, one argparse rejects, and ones it accepts, with or
\* without --log-level.
NoFlag == [kind |-> "ok", log_level |-> PyNone]
Argvs ==
    {[kind |-> "help", log_level |-> PyNone],
     [kind |-> "usage_error", log_level |-> PyStr("TRACE")],
     NoFlag}
    \cup {[kind |-> "ok", log_level |-> PyStr(l)] : l \in {"DEBUG", "ERROR"}}

\* What the configuration file can be: absent, not YAML, empty (safe_load
\* gives None), a mapping without the directory keys, a full mapping.
ConfigFiles == {"missing", "invalid", "empty", "no_dirs", "valid"}
\* logging.level in the file: absent or a level name.
FileLevels == {PyNone, PyStr("DEBUG"), PyStr("WARNING")}

\* Lines 265-282: parse_args.  -h prints the help and exits with 0, a
\* command line argparse rejects exits with 2; both leave main before the
\* try statement.
MainParseArgs(argv) ==
    /\ mn.pc = "none"
    /\ mn' = CASE argv.kind = "help" ->
                    [mn EXCEPT !.pc = "exited", !.argv = argv, !.exit = 0]
               [] argv.kind = "usage_error" ->
                    [mn EXCEPT !.pc = "exited", !.argv = argv, !.exit = 2]
               [] OTHER ->
                    [mn EXCEPT !.pc = "load_config", !.argv = argv,
                               !.flag = IF argv.log_level = PyNone
                                        THEN LogLevelDefault
                                        ELSE argv.log_level]
    /\ UNCHANGED <<config, dl_dir, out_dir, registry, stack, pc, loc, outcome,
                   log, calls, sc_report, sc_result, qc_df, qc, alt_dir, pk, remote>>

\* Line 286 and load_config (lines 254-260): FileNotFoundError when the
\* file is absent, yaml.YAMLError when it is not YAML, else what safe_load
\* gives.
MainLoadConfig(file, file_level) ==
    /\ mn.pc = "load_config"
    /\ mn' = CASE file = "missing" ->
                    [mn EXCEPT !.pc = "except", !.file = file,
                               !.error = PyExc("FileNotFoundError")]
               [] file = "invalid" ->
                    [mn EXCEPT !.pc = "except", !.file = file,
                               !.error = PyExc("YAMLError")]
               [] file = "empty" ->
                    [mn EXCEPT !.pc = "override", !.file = file]
               [] OTHER ->
                    [mn EXCEPT !.pc = "override", !.file = file,
                               !.file_level = file_level, !.level = file_level]
    /\ UNCHANGED <<config, dl_dir, out_dir, registry, stack, pc, loc, outcome,
                   log, calls, sc_report, sc_result, qc_df, qc, alt_dir, pk, remote>>

\* Lines 289-290: args.log_level, when truthy, replaces logging.level of
\* the configuration; setdefault on None is an AttributeError.
MainOverride ==
    /\ mn.pc = "override"
    /\ mn' = IF mn.flag = PyNone
             THEN [mn EXCEPT !.pc = "construct"]
             ELSE IF mn.file = "empty"
             THEN [mn EXCEPT !.pc = "except", !.error = PyExc("AttributeError")]
             ELSE [mn EXCEPT !.pc = "construct", !.level = mn.flag]
    /\ UNCHANGED <<config, dl_dir, out_dir, registry, stack, pc, loc, outcome,
                   log, calls, sc_report, sc_result, qc_df, qc, alt_dir, pk, remote>>

\* Line 293, ClinVarPipeline.__init__: setup_logging (lines 44-56) takes
\* logging.level of the configuration, "INFO" when there is none;
\* create_directories (lines 71-75) indexes the three directory keys.
MainConstruct ==
    /\ mn.pc = "construct"
    /\ mn' = IF mn.file = "empty"
             THEN [mn EXCEPT !.pc = "except", !.error = PyExc("AttributeError")]
             ELSE IF mn.file = "no_dirs"
             THEN [mn EXCEPT !.pc = "except", !.error = PyExc("KeyError"),
                             !.level = IF mn.level = PyNone THEN PyStr("INFO")
                                       ELSE mn.level]
             ELSE [mn EXCEPT !.pc = "run",
                             !.level = IF mn.level = PyNone THEN PyStr("INFO")
                                       ELSE mn.level]
    /\ UNCHANGED <<config, dl_dir, out_dir, registry, stack, pc, loc, outcome,
                   log, calls, sc_report, sc_result, qc_df, qc, alt_dir, pk, remote>>

\* Line 294: pipeline.run().
MainRun ==
    /\ mn.pc = "run"
    /\ mn' = [mn EXCEPT !.pc = "running"]
    /\ stack' = <<"run">>
    /\ pc' = "run_start"
    /\ loc' = LocInit
    /\ outcome' = NoOutcome
    /\ log' = <<>>
    /\ UNCHANGED <<config, dl_dir, out_dir, registry, calls, sc_report,
                   sc_result, qc_df, qc, alt_dir, pk, remote>>

\* Line 297 exiting with 0 whatever run returned.
MainExit_zero ==
    /\ mn.pc = "running" /\ pc = "idle" /\ outcome.kind = "returned"
    /\ mn' = [mn EXCEPT !.pc = "exited", !.exit = 0]
    /\ UNCHANGED <<config, dl_dir, out_dir, registry, stack, pc, loc, outcome,
                   log, calls, sc_report, sc_result, qc_df, qc, alt_dir, pk, remote>>

\* Line 297: sys.exit(0 if success else 1).  SystemExit is no Exception,
\* the except clause of line 299 lets it pass.
MainExit ==
    /\ mn.pc = "running" /\ pc = "idle" /\ outcome.kind = "returned"
    /\ mn' = [mn EXCEPT !.pc = "exited",
                        !.exit = IF outcome.value = PyBool(TRUE) THEN 0 ELSE 1]
    /\ UNCHANGED <<config, dl_dir, out_dir, registry, stack, pc, loc, outcome,
                   log, calls, sc_report, sc_result, qc_df, qc, alt_dir, pk, remote>>

\* Lines 299-301: except Exception, log the error, sys.exit(1).
MainExcept ==
    /\ mn.pc = "except"
    /\ mn' = [mn EXCEPT !.pc = "exited", !.exit = 1]
    /\ UNCHANGED <<config, dl_dir, out_dir, registry, stack, pc, loc, outcome,
                   log, calls, sc_report, sc_result, qc_df, qc, alt_dir, pk, remote>>

\* main is entered once, in a download directory that is empty or holds the
\* archive of an earlier run.
InitMain ==
    /\ config \in Configs
    /\ dl_dir \in {[n \in FileNames |-> IF n = DirName THEN Dir ELSE NoFile],
                   [n \in FileNames |-> IF n = DirName THEN Dir
                                        ELSE IF n = ArchiveName THEN "gzA"
                                        ELSE NoFile]}
    /\ out_dir = <<>>
    /\ registry = NoPkg
    /\ stack = <<>>
    /\ pc = "idle"
    /\ loc = LocInit
    /\ outcome = NoOutcome
    /\ log = <<>>
    /\ calls = 0
    /\ sc_report = NoReport
    /\ sc_result = PyNone
    /\ qc_df = NoTable
    /\ qc = QcInit
    /\ alt_dir = NoDir
    /\ pk = PkInit
    /\ mn = MnInit
    /\ remote = NoRemote

NextMain ==
    \/ \E argv \in Argvs : MainParseArgs(argv)
    \/ \E file \in ConfigFiles, file_level \in FileLevels :
            MainLoadConfig(file, file_level)
    \/ MainOverride
    \/ MainConstruct
    \/ MainRun
    \/ MainExit
    \/ MainExcept
    \/ RunInitialize
    \/ RunDownload
    \/ \E now \in Timestamps : RunAssess(now)
    \/ RunPublish
    \/ RunSuccess
    \/ RunExcept
    \/ DavDownloadFile
    \/ DfSkipExisting
    \/ DfEnterLoop
    \/ \E content \in ArchiveContents : DfAttemptOk(content)
    \/ DfAttemptRetry
    \/ DfAttemptRaise
    \/ DavChecksumFails
    \/ \E body \in ChecksumBodies : DavChecksum(body)
    \/ DavValidate
    \/ DavDecompress
    \/ FpwValidate
    \/ FpwBuild
    \/ PtrDisabled
    \/ PtrPushOk
    \/ PtrPushFails
    \/ FpwDone

SpecMain == InitMain /\ [][NextMain]_vars

(***************************************************************************)
(* Repeated runs against a server whose checksum file does not change      *)
(***************************************************************************)
\* The checksum file is fixed when the first run starts; the download
\* directory is empty then.
InitRerun ==
    /\ config \in Configs
    /\ dl_dir = [n \in FileNames |-> IF n = DirName THEN Dir ELSE NoFile]
    /\ out_dir = <<>>
    /\ registry = NoPkg
    /\ stack = <<>>
    /\ pc = "idle"
    /\ loc = LocInit
    /\ outcome = NoOutcome
    /\ log = <<>>
    /\ calls = 0
    /\ sc_report = NoReport
    /\ sc_result = PyNone
    /\ qc_df = NoTable
    /\ qc = QcInit
    /\ alt_dir = NoDir
    /\ pk = PkInit
    /\ mn = MnInit
    /\ remote \in ChecksumBodies

NextRerun ==
    \/ CallDownloadAndVerify
    \/ CallRun
    \/ RunInitialize
    \/ RunDownload
    \/ \E now \in Timestamps : RunAssess(now)
    \/ RunPublish
    \/ RunSuccess
    \/ RunExcept
    \/ DavDownloadFile
    \/ DfSkipExisting
    \/ DfEnterLoop
    \/ \E content \in ArchiveContents : DfAttemptOk(content)
    \/ DfAttemptRetry
    \/ DfAttemptRaise
    \/ DavChecksumFails
    \/ DavChecksum(remote)
    \/ DavValidate
    \/ DavDecompress
    \/ FpwValidate
    \/ FpwBuild
    \/ PtrDisabled
    \/ PtrPushOk
    \/ PtrPushFails
    \/ FpwDone

SpecRerun == InitRerun /\ [][NextRerun]_vars

(***************************************************************************)
(* The specification of calculate_quality_score as a pure function: the    *)
(* initial states draw the report, the one action applies the function.    *)
(***************************************************************************)
ScoreMaxRows == 105     \* row_count ranges over 0..ScoreMaxRows, and 1000

Absent == <<"absent">>
ScoreRowCounts == {FromInt(n) : n \in 0..ScoreMaxRows} \cup {FromInt(1000), Absent}
ScoreNullPcts ==
    {FromInt(-10), FromInt(0), FromInt(2), Rat(833, 100), FromInt(25),
     Rat(5999, 100), FromInt(60), FromInt(100), FromInt(250), Absent}
ScoreConflicts ==
    {FromInt(-3), FromInt(0), FromInt(1), FromInt(5), FromInt(50),
     FromInt(100000), Absent}
ScoreFourStars ==
    {FromInt(-1000), FromInt(0), Rat(100, 3), FromInt(85), FromInt(100),
     FromInt(150), Absent}

\* The report with the fields that are not Absent.
MkReport(rc, np, cc, fs) ==
    LET all == [row_count |-> rc, null_percentage_avg |-> np,
                conflicting_count |-> cc, four_star_percentage |-> fs]
    IN  [k \in {f \in DOMAIN all : all[f] # Absent} |-> all[k]]

ScoreReports ==
    {MkReport(rc, np, cc, fs) :
        rc \in ScoreRowCounts, np \in ScoreNullPcts,
        cc \in ScoreConflicts, fs \in ScoreFourStars}

InitScore ==
    /\ config = [source_url |-> ArchiveUrl, checksum_url |-> ChecksumUrl,
                 quilt |-> QuiltFull]
    /\ dl_dir = [n \in FileNames |-> IF n = DirName THEN Dir ELSE NoFile]
    /\ out_dir = <<>>
    /\ registry = NoPkg
    /\ stack = <<>>
    /\ pc = "idle"
    /\ loc = LocInit
    /\ outcome = NoOutcome
    /\ log = <<>>
    /\ calls = 0
    /\ sc_report \in ScoreReports
    /\ sc_result = PyNone
    /\ qc_df = NoTable
    /\ qc = QcInit
    /\ alt_dir = NoDir
    /\ pk = PkInit
    /\ mn = MnInit
    /\ remote = NoRemote

\* A caller calls calculate_quality_score(sc_report).
CallScore ==
    /\ sc_result = PyNone
    /\ sc_result' = calculate_quality_score(sc_report)
    /\ UNCHANGED <<config, dl_dir, out_dir, registry, stack, pc, loc, outcome,
                   log, calls, sc_report, qc_df, qc, alt_dir, pk, mn, remote>>

NextScore == CallScore

SpecScore == InitScore /\ [][NextScore]_vars

(***************************************************************************)
(* The specification of the quality checker on a table: the initial states *)
(* draw the table, the actions are the calls a caller makes in turn:       *)
(* generate_report, save_report, json.load of the file written, and the    *)
(* packager's _generate_metadata_from_report.                              *)
(***************************************************************************)
MaxTableRows == 2      \* the drawn tables have 0..MaxTableRows rows

RowChoices ==
    {Row(1, <<"S", "N", "V">>, 0, Benign, FourStars),
     Row(2, <<"D", "E", "L">>, 2, <<"b", "e", "n", "i", "g", "n">>, NaN),
     Row(3, NaN, 1, PyInt(<<"1">>), <<"n", "a">>),
     Row(4, <<"S", "N", "V">>, 0, NaN, <<Star>>),
     Row(5, <<"I", "N", "S">>, 0, <<"D", "r", "u", "g", "-", "r", " ", "x">>,
         <<"p", Star, Star, "-", Star, Star>>),
     Row(6, NaN, 0, NaN, NaN)}

OptionalColumns == {"ConflictingInterpretations", "ClinicalSignificance", "ReviewStatus"}
ColumnSets == {{}} \cup {{"VariationID", "Type"} \cup cs : cs \in SUBSET OptionalColumns}

\* test_calculate_duplicate_count_with_duplicates
DuplicatesTable ==
    MkTable({"VariationID", "Type"},
            <<Row(1, <<"S", "N", "V">>, 0, NaN, NaN),
              Row(1, <<"S", "N", "V">>, 0, NaN, NaN),
              Row(2, <<"D", "E", "L">>, 0, NaN, NaN),
              Row(3, <<"I", "N", "S">>, 0, NaN, NaN),
              Row(3, <<"I", "N", "S">>, 0, NaN, NaN)>>)

\* test_calculate_null_percentage_all_nulls
AllNullsTable ==
    MkTable({"Type", "ClinicalSignificance"},
            <<Row(1, NaN, 0, NaN, NaN), Row(2, NaN, 0, NaN, NaN)>>)

Tables ==
    {MkTable(columns, rows) :
        columns \in ColumnSets,
        rows \in UNION {[1..n -> RowChoices] : n \in 0..MaxTableRows}}
    \cup {DuplicatesTable, AllNullsTable, read_csv("tsvA")}

\* The clock: two moments of one day and one of the next.
QualityTimestamps ==
    Timestamps \cup {<<"2025-11-22", "T", "09", ":", "15", ":", "00", "+00", ":", "00">>}

InitQuality ==
    /\ config = [source_url |-> ArchiveUrl, checksum_url |-> ChecksumUrl,
                 quilt |-> QuiltFull]
    /\ dl_dir = [n \in FileNames |-> IF n = DirName THEN Dir ELSE NoFile]
    /\ out_dir = <<>>
    /\ registry = NoPkg
    /\ stack = <<>>
    /\ pc = "idle"
    /\ loc = LocInit
    /\ outcome = NoOutcome
    /\ log = <<>>
    /\ calls = 0
    /\ sc_report = NoReport
    /\ sc_result = PyNone
    /\ qc_df \in Tables
    /\ qc = QcInit
    /\ alt_dir = NoDir
    /\ pk = PkInit
    /\ mn = MnInit
    /\ remote = NoRemote

\* A caller calls generate_report(qc_df) when the clock reads now.
GenerateReport(now) ==
    /\ qc.pc = "idle"
    /\ qc' = [QcInit EXCEPT !.pc = "generated",
                            !.report = generate_report(calculate_basic_metrics(qc_df), now)]
    /\ UNCHANGED <<config, dl_dir, out_dir, registry, stack, pc, loc, outcome, log,
                   calls, sc_report, sc_result, qc_df, alt_dir, pk, mn, remote>>

\* A report a caller passes to save_report without its timestamp.
WithoutTimestamp(report) == [k \in DOMAIN report \ {"timestamp"} |-> report[k]]

\* save_report(report), writing to self.output_dir (line 272), which
\* __init__ created (line 31), when the clock reads now.
SaveReportDefault(report, now) ==
    /\ qc.pc = "generated"
    /\ out_dir' = save_report(out_dir, report, now)
    /\ qc' = [qc EXCEPT !.pc = "saved", !.saved = report,
                        !.path = PyPath(<<"out", report_filename(report, now)>>)]
    /\ log' = Append(log, Ev("save_report", <<"out", report, now>>))
    /\ UNCHANGED <<config, dl_dir, registry, stack, pc, loc, outcome, calls,
                   sc_report, sc_result, qc_df, alt_dir, pk, mn, remote>>

\* save_report(report, output_dir): lines 274-275 create the directory.
SaveReportTo(report, now) ==
    /\ qc.pc = "generated"
    /\ alt_dir' = [exists |-> TRUE, files |-> save_report(alt_dir.files, report, now)]
    /\ qc' = [qc EXCEPT !.pc = "saved", !.saved = report,
                        !.path = PyPath(<<"alt", report_filename(report, now)>>)]
    /\ log' = Append(log, Ev("save_report", <<"alt", report, now>>))
    /\ UNCHANGED <<config, dl_dir, out_dir, registry, stack, pc, loc, outcome, calls,
                   sc_report, sc_result, qc_df, pk, mn, remote>>

\* json.load of the file save_report returned the path of.
ReloadReport ==
    /\ qc.pc = "saved"
    /\ LET files == IF qc.path[2][1] = "out" THEN out_dir ELSE alt_dir.files
       IN  qc' = [qc EXCEPT !.pc = "loaded", !.loaded = json_load(files[qc.path[2][2]])]
    /\ UNCHANGED <<config, dl_dir, out_dir, registry, stack, pc, loc, outcome, log,
                   calls, sc_report, sc_result, qc_df, alt_dir, pk, mn, remote>>

\* _generate_metadata_from_report(report) of the report in memory.
GenerateMetadata ==
    /\ qc.pc = "loaded"
    /\ qc' = [qc EXCEPT !.pc = "done",
                        !.metadata =
                            IF generate_metadata_raises(qc.report)
                            THEN PyExc("AttributeError")
                            ELSE <<"meta", generate_metadata_from_report(qc.report)>>]
    /\ UNCHANGED <<config, dl_dir, out_dir, registry, stack, pc, loc, outcome, log,
                   calls, sc_report, sc_result, qc_df, alt_dir, pk, mn, remote>>

NextQuality ==
    \/ \E now \in QualityTimestamps : GenerateReport(now)
    \/ \E now \in QualityTimestamps : SaveReportDefault(qc.report, now)
    \/ \E now \in QualityTimestamps : SaveReportTo(qc.report, now)
    \/ ReloadReport
    \/ GenerateMetadata

SpecQuality == InitQuality /\ [][NextQuality]_vars

(***************************************************************************)
(* The specification of two reports saved one after the other: the table  *)
(* is one of the tables of the tests, the caller generates and saves a     *)
(* report, then a second one, each with or without its timestamp.          *)
(***************************************************************************)
SaveTables == {DuplicatesTable, AllNullsTable, read_csv("tsvA")}

InitSave ==
    /\ config = [source_url |-> ArchiveUrl, checksum_url |-> ChecksumUrl,
                 quilt |-> QuiltFull]
    /\ dl_dir = [n \in FileNames |-> IF n = DirName THEN Dir ELSE NoFile]
    /\ out_dir = <<>>
    /\ registry = NoPkg
    /\ stack = <<>>
    /\ pc = "idle"
    /\ loc = LocInit
    /\ outcome = NoOutcome
    /\ log = <<>>
    /\ calls = 0
    /\ sc_report = NoReport
    /\ sc_result = PyNone
    /\ qc_df \in SaveTables
    /\ qc = QcInit
    /\ alt_dir = NoDir
    /\ pk = PkInit
    /\ mn = MnInit
    /\ remote = NoRemote

\* The caller calls generate_report(qc_df) a second time.
GenerateSecondReport(now) ==
    /\ qc.pc = "done"
    /\ Len(log) = 1
    /\ qc' = [QcInit EXCEPT !.pc = "generated",
                            !.report = generate_report(calculate_basic_metrics(qc_df), now)]
    /\ UNCHANGED <<config, dl_dir, out_dir, registry, stack, pc, loc, outcome, log,
                   calls, sc_report, sc_result, qc_df, alt_dir, pk, mn, remote>>

NextSave ==
    \/ \E now \in QualityTimestamps : GenerateReport(now)
    \/ \E now \in QualityTimestamps : GenerateSecondReport(now)
    \/ \E now \in QualityTimestamps : SaveReportDefault(qc.report, now)
    \/ \E now \in QualityTimestamps : SaveReportDefault(WithoutTimestamp(qc.report), now)
    \/ \E now \in QualityTimestamps : SaveReportTo(qc.report, now)
    \/ \E now \in QualityTimestamps : SaveReportTo(WithoutTimestamp(qc.report), now)
    \/ ReloadReport
    \/ GenerateMetadata

SpecSave == InitSave /\ [][NextSave]_vars

(***************************************************************************)
(* The specification of the packager's name: the initial states draw the  *)
(* configured package_name, the one action is QuiltPackager.__init__.     *)
(***************************************************************************)
MaxNameLen == 5      \* the configured names have 0..MaxNameLen characters

PackageNames == UNION {[1..n -> {"a", "b", "/"}] : n \in 0..MaxNameLen}

InitName ==
    /\ config = [source_url |-> ArchiveUrl, checksum_url |-> ChecksumUrl,
                 quilt |-> QuiltFull]
    /\ dl_dir = [n \in FileNames |-> IF n = DirName THEN Dir ELSE NoFile]
    /\ out_dir = <<>>
    /\ registry = NoPkg
    /\ stack = <<>>
    /\ pc = "idle"
    /\ loc = LocInit
    /\ outcome = NoOutcome
    /\ log = <<>>
    /\ calls = 0
    /\ sc_report = NoReport
    /\ sc_result = PyNone
    /\ qc_df = NoTable
    /\ qc = QcInit
    /\ alt_dir = NoDir
    /\ pk \in {[PkInit EXCEPT !.package_name = name] : name \in PackageNames}
    /\ mn = MnInit
    /\ remote = NoRemote

\* QuiltPackager(config) with config["quilt"]["package_name"] = pk.package_name
QuiltPackagerInit ==
    /\ pk.package = PyNone
    /\ pk' = [pk EXCEPT !.package = <<"str", package_name(pk.package_name)>>]
    /\ UNCHANGED <<config, dl_dir, out_dir, registry, stack, pc, loc, outcome, log,
                   calls, sc_report, sc_result, qc_df, qc, alt_dir, mn, remote>>

NextName == QuiltPackagerInit

SpecName == InitName /\ [][NextName]_vars

(***************************************************************************)
(* C1.  For every input report (any row_count >= 0, any null percentage,   *)
(* any conflicting count, any four-star percentage, absent fields          *)
(* defaulting to 0) calculate_quality_score returns s with 0 <= s <= 100.  *)
(***************************************************************************)
ScoreInRange ==
    sc_result # PyNone =>
        /\ RLe(FromInt(0), sc_result)
        /\ RLe(sc_result, FromInt(100))

\* The score of an extreme report has been computed: every cell missing,
\* one row, a conflict count far above the row count, every row 4-star.
ScoreInRangeWitness ==
    /\ sc_result # PyNone
    /\ sc_report = MkReport(FromInt(1), FromInt(100), FromInt(100000), FromInt(100))

(***************************************************************************)
(* C2.  calculate_quality_score(report) equals                             *)
(* clamp(100 - min(0.5*null, 30) - min(2*conflict_rate, 25)                *)
(*       + min(0.25*four_star, 25) - size_penalty, 0, 100), with           *)
(* conflict_rate = conflicting_count/row_count*100 if row_count > 0 else 0 *)
(* and size_penalty = min(0.2*(100 - row_count), 20) if row_count < 100    *)
(* else 0; the report {1000 rows, null 2.0, 5 conflicts, four-star 85.0}   *)
(* scores in [80,100] and {100 rows, null 25.0, 50 conflicts, four-star    *)
(* 0.0} scores in [0,70].                                                  *)
(***************************************************************************)
Field(report, f) == IF f \in DOMAIN report THEN report[f] ELSE FromInt(0)

Clamp(x, lo, hi) == IF RLt(x, lo) THEN lo ELSE IF RLt(hi, x) THEN hi ELSE x

FormulaConflictRate(report) ==
    IF Field(report, "row_count")[1] > 0
    THEN Rat(Field(report, "conflicting_count")[1] * Field(report, "row_count")[2] * 100,
             Field(report, "conflicting_count")[2] * Field(report, "row_count")[1])
    ELSE FromInt(0)

FormulaSizePenalty(report) ==
    IF RLt(Field(report, "row_count"), FromInt(100))
    THEN RMin(RMul(Rat(2, 10), RSub(FromInt(100), Field(report, "row_count"))),
              FromInt(20))
    ELSE FromInt(0)

FormulaScore(report) ==
    Clamp(RSub(RAdd(RSub(RSub(FromInt(100),
                              RMin(RMul(Rat(5, 10), Field(report, "null_percentage_avg")),
                                   FromInt(30))),
                         RMin(RMul(FromInt(2), FormulaConflictRate(report)), FromInt(25))),
                    RMin(RMul(Rat(25, 100), Field(report, "four_star_percentage")),
                         FromInt(25))),
               FormulaSizePenalty(report)),
          FromInt(0), FromInt(100))

AllGoodReport == MkReport(FromInt(1000), FromInt(2), FromInt(5), FromInt(85))
AllBadReport == MkReport(FromInt(100), FromInt(25), FromInt(50), FromInt(0))

ScoreMatchesFormula ==
    sc_result # PyNone =>
        /\ sc_result = FormulaScore(sc_report)
        /\ sc_report = AllGoodReport =>
                RLe(FromInt(80), sc_result) /\ RLe(sc_result, FromInt(100))
        /\ sc_report = AllBadReport =>
                RLe(FromInt(0), sc_result) /\ RLe(sc_result, FromInt(70))

\* The all-bad report of the tests has been scored: 100 - 12.5 - 25 = 62.5.
ScoreMatchesFormulaWitness ==
    /\ sc_report = AllBadReport
    /\ sc_result = Rat(125, 2)

(***************************************************************************)
(* What the claims below read off a state.                                 *)
(***************************************************************************)
\* The top-level call in progress or just ended.
Entry == IF stack # <<>> THEN stack[1] ELSE outcome.of
Finished(f) == pc = "idle" /\ outcome.of = f

EventIdx(name) == {i \in DOMAIN log : log[i][1] = name}
Happened(name) == EventIdx(name) # {}
Count(name) == Cardinality(EventIdx(name))

\* The requests made for the archive, as opposed to the checksum file.
ArchiveRequestIdx ==
    {i \in EventIdx("requests.get") : log[i][2] # config.checksum_url}

\* Two checksums are the same text up to the case of their letters.
SameIgnoringCase(a, b) == Upper(a) = Upper(b)

\* The checksum comparisons made so far whose two sides differ.
MismatchIdx ==
    {i \in EventIdx("md5_compare") : ~SameIgnoringCase(log[i][2][1], log[i][2][2])}

(***************************************************************************)
(* C3.  download_and_verify fails with a checksum mismatch exactly when    *)
(* the recomputed MD5 of the archive differs from the expected checksum    *)
(* under case-insensitive comparison; in every run where that error is     *)
(* raised decompress_gzip is never invoked and no decompressed path is     *)
(* returned.                                                               *)
(***************************************************************************)
MismatchRaised ==
    outcome.kind = "raised" /\ outcome.value = PyExc("ValueError: Checksum mismatch")

MismatchStopsVerify ==
    /\ Finished("download_and_verify") =>
            /\ MismatchRaised <=> MismatchIdx # {}
            /\ MismatchRaised =>
                    /\ ~Happened("decompress_gzip")
                    /\ outcome.kind # "returned"
                    /\ ~Exists(dl_dir, with_suffix_empty(loc.gz_filepath[2]))
                       \/ calls > 1
    /\ Entry \in {"download_and_verify", "run"} /\ MismatchIdx # {} =>
            /\ ~Happened("decompress_gzip")
            /\ pc \in {"idle", "run_except"}

\* download_and_verify has ended with the mismatch on an archive it holds.
MismatchStopsVerifyWitness ==
    /\ Finished("download_and_verify")
    /\ MismatchRaised
    /\ IsFile(dl_dir, ArchiveName)
    /\ Count("md5_compare") = 1

(***************************************************************************)
(* C4.  In every execution of ClinVarPipeline.run the steps are invoked in *)
(* the order download, assess, publish, each at most once; assess only     *)
(* after download returned successfully, publish only after assess         *)
(* returned successfully, and the data file returned by download is the    *)
(* one passed to both assess and publish.                                  *)
(***************************************************************************)
StepNames == {"download_data", "assess_quality", "create_package"}
StepOrder == <<"download_data", "assess_quality", "create_package">>
StepCalls == SelectSeq(log, LAMBDA e : e[1] \in StepNames)

\* Event a is in the log and event b, if there, comes after it.
Before(a, b) ==
    \A j \in EventIdx(b) : \E i \in EventIdx(a) : i < j

RunStepsInOrder ==
    Entry = "run" =>
        /\ Len(StepCalls) <= 3
        /\ \A i \in DOMAIN StepCalls : StepCalls[i][1] = StepOrder[i]
        /\ Before("download_successful", "assess_quality")
        /\ Before("assess_successful", "create_package")
        /\ \A i \in EventIdx("download_successful") :
                /\ \A j \in EventIdx("assess_quality") : log[j][2] = log[i][2]
                /\ \A j \in EventIdx("create_package") : log[j][2] = log[i][2]
        /\ \A j \in EventIdx("pkg.set") :
                \E i \in EventIdx("download_successful") : log[i][2] = PyPath(log[j][2])

\* run has invoked all three steps on the decompressed file.
RunStepsInOrderWitness ==
    /\ Finished("run")
    /\ Count("download_data") = 1 /\ Count("assess_quality") = 1
    /\ Count("create_package") = 1
    /\ \E j \in EventIdx("create_package") : log[j][2] = PyPath(DataName)

(***************************************************************************)
(* C5.  ClinVarPipeline.run never propagates an exception raised by module *)
(* initialization or by any of the three steps: it returns False if any of *)
(* them raised (skipping all later steps) and returns True if and only if  *)
(* all three steps completed.                                              *)
(***************************************************************************)
AllStepsCompleted ==
    /\ Happened("download_successful")
    /\ Happened("assess_successful")
    /\ Happened("package_successful")

SomethingRaised ==
    \/ Happened("download_failed")
    \/ Happened("assess_failed")
    \/ Happened("package_failed")
    \/ ~QuiltInitOk(config)

RequiredFields == {"timestamp", "row_count", "column_count", "quality_score"}

BadPublishInput ==
    \/ ~(RequiredFields \subseteq DOMAIN loc.quality_report[2])
    \/ dl_dir[loc.data_file[2]] = NoFile

InvalidPublishRaisesEarly ==
    Entry = "full_package_workflow" /\ BadPublishInput =>
        /\ ~Happened("quilt3.Package")
        /\ ~Happened("pkg.push")
        /\ ~loc.pkg.made
        /\ pc \in {"fpw_start", "idle"}
        /\ pc = "idle" => outcome.kind = "raised"

\* The workflow has raised on a report that lacks only quality_score, its
\* data file being in place.
InvalidPublishRaisesEarlyWitness ==
    /\ Finished("full_package_workflow")
    /\ outcome.kind = "raised"
    /\ IsFile(dl_dir, loc.data_file[2])
    /\ RequiredFields \ DOMAIN loc.quality_report[2] = {"quality_score"}

(***************************************************************************)
(* C7.  The registry push is invoked exactly once per publish when         *)
(* push_to_registry is enabled and never when it is disabled; in the       *)
(* disabled case push_to_registry returns success and                      *)
(* full_package_workflow still constructs the local package (data file     *)
(* set, metadata set) and returns True.  A publish is a call of            *)
(* push_to_registry, made directly or by a workflow whose inputs passed    *)
(* validation.                                                             *)
(***************************************************************************)
FlagOn ==
    /\ "push_to_registry" \in DOMAIN config.quilt
    /\ config.quilt["push_to_registry"] = TRUE

PushOncePerPublish ==
    /\ Count("pkg.push") <= 1
    /\ ~FlagOn => ~Happened("pkg.push") /\ registry = NoPkg
    /\ Finished("push_to_registry") =>
            /\ Count("pkg.push") = IF FlagOn THEN 1 ELSE 0
            /\ ~FlagOn => outcome = [kind |-> "returned", value |-> PyBool(TRUE),
                                     of |-> "push_to_registry"]
    /\ Entry \in {"full_package_workflow", "run"}
       /\ (pc \in {"fpw_done", "run_success"} \/ Happened("package_successful")
           \/ (Finished("full_package_workflow") /\ Happened("quilt3.Package"))) =>
            /\ Count("pkg.push") = IF FlagOn THEN 1 ELSE 0
            /\ loc.pkg.made
            /\ loc.pkg.entries = {loc.data_file[2]}
            /\ loc.pkg.meta # PyNone
    /\ Finished("full_package_workflow") /\ ~FlagOn /\ ~BadPublishInput
       /\ IsFile(dl_dir, loc.data_file[2]) =>
            /\ outcome = [kind |-> "returned", value |-> PyBool(TRUE),
                          of |-> "full_package_workflow"]
            /\ Happened("quilt3.Package") /\ Happened("pkg.set")
            /\ Happened("pkg.set_meta")
            /\ loc.pkg.made /\ loc.pkg.entries = {loc.data_file[2]}
            /\ loc.pkg.meta # PyNone

\* With no push_to_registry key in the configuration the workflow has
\* built the package and returned True.
PushOncePerPublishWitness ==
    /\ Finished("full_package_workflow")
    /\ "push_to_registry" \notin DOMAIN config.quilt
    /\ outcome.kind = "returned"
    /\ loc.pkg.made
    /\ ~Happened("pkg.push")

(***************************************************************************)
(* C8.  download_file on an absent destination issues at most max_retries  *)
(* requests, stops at the first successful one (writing the file and       *)
(* returning its path), sleeps 2^k seconds after failed attempt k          *)
(* (0-indexed) only when another attempt follows, and after max_retries    *)
(* consecutive request failures raises the last error instead of           *)
(* returning.                                                              *)
(***************************************************************************)
RECURSIVE Pow2(_)
Pow2(k) == IF k = 0 THEN 1 ELSE 2 * Pow2(k - 1)

\* The log of k failed attempts, each followed by its sleep.
RECURSIVE FailedAttempts(_, _)
FailedAttempts(url, k) ==
    IF k = 0 THEN <<>>
    ELSE FailedAttempts(url, k - 1)
            \o <<Ev("requests.get", url), Ev("sleep", <<Pow2(k - 1)>>)>>

RetriesWithBackoff ==
    /\ Entry = "download_file" =>
            Cardinality(ArchiveRequestIdx) <= loc.max_retries
    /\ Entry \in {"download_and_verify", "run"} =>
            Cardinality(ArchiveRequestIdx) <= DefaultMaxRetries
    /\ Entry = "download_file" /\ pc = "df_loop" =>
            log = FailedAttempts(loc.url, loc.attempt)
    /\ Finished("download_file") /\ ~Happened("skip_download")
       /\ loc.max_retries >= 1 =>
            \E k \in 0..(loc.max_retries - 1) :
                /\ log = FailedAttempts(loc.url, k) \o <<Ev("requests.get", loc.url)>>
                /\ outcome.kind = "returned" =>
                        /\ outcome.value = PyPath(loc.url[Len(loc.url)])
                        /\ IsFile(dl_dir, loc.url[Len(loc.url)])
                /\ outcome.kind = "raised" =>
                        /\ k = loc.max_retries - 1
                        /\ outcome.value = PyExc("RequestException")

\* download_file(url, 3) has raised after three failed requests and the
\* sleeps of 1 and 2 seconds between them.
RetriesWithBackoffWitness ==
    /\ Finished("download_file")
    /\ outcome.kind = "raised"
    /\ loc.max_retries = 3
    /\ log = <<Ev("requests.get", loc.url), Ev("sleep", <<1>>),
               Ev("requests.get", loc.url), Ev("sleep", <<2>>),
               Ev("requests.get", loc.url)>>

(***************************************************************************)
(* C9.  If a file already exists at download_dir/<last path segment of the *)
(* URL>, download_file returns that path without issuing any network       *)
(* request and leaves the file's content unchanged.                        *)
(***************************************************************************)
SkipStep ==
    pc = "df_start" /\ dl_dir[loc.url[Len(loc.url)]] # NoFile =>
        /\ dl_dir' = dl_dir
        /\ \A i \in DOMAIN log' : log'[i][1] = "requests.get" => i \in DOMAIN log
        /\ IF Len(stack) = 1
           THEN /\ pc' = "idle"
                /\ outcome' = [kind |-> "returned",
                               value |-> PyPath(loc.url[Len(loc.url)]),
                               of |-> "download_file"]
           ELSE loc'.gz_filepath = PyPath(loc.url[Len(loc.url)])

ExistingFileSkipsDownload == [][SkipStep]_vars

\* A second call of download_file has returned the path of the archive the
\* first one wrote, with no request made.
ExistingFileSkipsDownloadWitness ==
    /\ Finished("download_file")
    /\ Happened("skip_download")
    /\ outcome.kind = "returned"
    /\ outcome.value = PyPath(ArchiveName)
    /\ IsFile(dl_dir, ArchiveName)
    /\ ~Happened("requests.get")

(***************************************************************************)
(* C10.  As claimed: when download_and_verify runs with the archive        *)
(* already present in the download directory, it skips the download and    *)
(* performs no checksum comparison for the cached file before it is        *)
(* decompressed.                                                           *)
(***************************************************************************)
CachedArchiveNotRevalidated ==
    Entry \in {"download_and_verify", "run"} /\ Happened("skip_download") =>
        ~Happened("md5_compare")

(***************************************************************************)
(* C10, amended.  When download_and_verify runs with the archive already   *)
(* present, it issues no request for the archive, but it still fetches the *)
(* expected checksum and compares it with the MD5 of the cached archive:   *)
(* the archive is decompressed only after that comparison, and only if it  *)
(* matched.                                                                *)
(***************************************************************************)
CachedArchiveRevalidated ==
    Entry \in {"download_and_verify", "run"} =>
        /\ Happened("skip_download") => ArchiveRequestIdx = {}
        /\ Before("md5_compare", "decompress_gzip")
        /\ Happened("decompress_gzip") =>
                /\ MismatchIdx = {}
                /\ Count("md5_compare") = 1
                /\ \A i \in EventIdx("md5_compare") :
                        log[i][2][1] = MD5(dl_dir[loc.gz_filepath[2]])

\* download_and_verify has found the archive in place, compared its
\* checksum and decompressed it.
CachedArchiveRevalidatedWitness ==
    /\ Finished("download_and_verify")
    /\ outcome.kind = "returned"
    /\ Happened("skip_download")
    /\ Count("md5_compare") = 1
    /\ Before("skip_download", "md5_compare")
    /\ Happened("decompress_gzip")

(***************************************************************************)
(* Equality of Python mappings: two dicts are equal when they have the     *)
(* same items; two reports when they have the same fields with equal       *)
(* values, a distribution being a dict.                                    *)
(***************************************************************************)
Items(d) == {d[i] : i \in DOMAIN d}
SameReport(x, y) ==
    /\ DOMAIN x = DOMAIN y
    /\ \A k \in DOMAIN x :
        IF k \in DistFields THEN Items(x[k]) = Items(y[k]) ELSE x[k] = y[k]

Reloaded == qc.pc \in {"loaded", "done"}

(***************************************************************************)
(* C11.  For every report produced by generate_report, save_report         *)
(* followed by reloading the written JSON file yields a mapping equal      *)
(* field for field to the in-memory report, both distributions and their   *)
(* keys included.                                                          *)
(***************************************************************************)
ReportRoundTrips ==
    Reloaded /\ qc.saved = qc.report => SameReport(qc.loaded, qc.report)

(***************************************************************************)
(* The saves of a behaviour are the save_report events of the log, each    *)
(* holding the directory written to, the report passed and the reading of  *)
(* the clock at the call.                                                  *)
(***************************************************************************)
Saves == SelectSeq(log, LAMBDA e : e[1] = "save_report")
SaveDir(e) == e[2][1]
SaveArg(e) == e[2][2]
SaveClock(e) == e[2][3]
FilesOf(dir) == IF dir = "out" THEN out_dir ELSE alt_dir.files
DirExists(dir) == dir = "out" \/ alt_dir.exists
HasSaved == qc.pc \in {"saved", "loaded", "done"}

\* quality_report_<YYYY-MM-DD>.json for the date a timestamp starts with
DatedName(timestamp) == <<"quality_report_", Head(timestamp), ".json">>

SaveDate(e) ==
    Head(IF "timestamp" \in DOMAIN SaveArg(e) THEN SaveArg(e)["timestamp"]
         ELSE SaveClock(e))
SavesTo(dir) == SelectSeq(Saves, LAMBDA e : SaveDir(e) = dir)
SavesOn(dir, date) == SelectSeq(SavesTo(dir), LAMBDA e : SaveDate(e) = date)

(***************************************************************************)
(* C13.  Saving two reports whose timestamps share a date into the same    *)
(* directory targets the same path both times: the directory then holds    *)
(* exactly one report file for that date and its content is the second     *)
(* report, while reports of different dates never overwrite each other.    *)
(* So each directory holds one file per date saved there, and the file of  *)
(* a date holds the last report saved under that date.                     *)
(***************************************************************************)
LastWriteWins ==
    \A dir \in {"out", "alt"} :
        LET files == FilesOf(dir)
            dates == {SaveDate(SavesTo(dir)[i]) : i \in DOMAIN SavesTo(dir)}
        IN  /\ DOMAIN files = {DatedName(<<date>>) : date \in dates}
            /\ \A date \in dates :
                /\ Cardinality({n \in DOMAIN files : n[2] = date}) = 1
                /\ SameReport(json_load(files[DatedName(<<date>>)]),
                              SaveArg(Last(SavesOn(dir, date))))

\* Two different reports of one date saved into one directory.
LastWriteWinsWitness ==
    /\ qc.pc = "saved"
    /\ Len(Saves) = 2
    /\ SaveDir(Saves[1]) = SaveDir(Saves[2])
    /\ SaveDate(Saves[1]) = SaveDate(Saves[2])
    /\ "timestamp" \in DOMAIN SaveArg(Saves[1]) \cap DOMAIN SaveArg(Saves[2])
    /\ SaveArg(Saves[1]) # SaveArg(Saves[2])
    /\ Cardinality(DOMAIN FilesOf(SaveDir(Saves[2]))) = 1

(***************************************************************************)
(* What the claims about the metrics say of a table, counted on the table  *)
(* itself.                                                                 *)
(***************************************************************************)
Generated == qc.pc # "idle"
RowCount == Len(qc_df.rows)
ColumnCount == Cardinality(qc_df.columns)
MissingCells ==
    Cardinality({<<i, c>> \in (DOMAIN qc_df.rows) \X (qc_df.columns \ IntColumns) :
                    qc_df.rows[i][c] = NaN})
EmptyTable == RowCount = 0 \/ ColumnCount = 0

\* 100 * missing / (rows * columns), as a rational
ExactNullPercentage == Rat(100 * MissingCells, RowCount * ColumnCount)

(***************************************************************************)
(* C14 as stated.  For every non-empty table _calculate_null_percentage    *)
(* returns (missing cells / (row_count * column_count)) * 100, a value in  *)
(* [0,100]; for an empty table it returns exactly 0.0.                     *)
(***************************************************************************)
NullPercentageExact ==
    Generated =>
        qc.report["null_percentage_avg"] =
            IF EmptyTable THEN FromInt(0) ELSE ExactNullPercentage

(***************************************************************************)
(* C14 amended.  For every non-empty table _calculate_null_percentage      *)
(* returns (missing cells / (row_count * column_count)) * 100 rounded to   *)
(* two decimals: a multiple of 0.01 within 0.005 of the exact value, in    *)
(* [0,100], 100.0 when every cell is missing and 0.0 when none is; for an  *)
(* empty table it returns exactly 0.0.                                     *)
(***************************************************************************)
NullPercentageRounded ==
    Generated =>
        LET p == qc.report["null_percentage_avg"]
        IN  IF EmptyTable THEN p = FromInt(0)
            ELSE /\ 100 % p[2] = 0
                 /\ RLe(RSub(ExactNullPercentage, Rat(1, 200)), p)
                 /\ RLe(p, RAdd(ExactNullPercentage, Rat(1, 200)))
                 /\ RLe(FromInt(0), p) /\ RLe(p, FromInt(100))
                 /\ (MissingCells = RowCount * ColumnCount => p = FromInt(100))
                 /\ (MissingCells = 0 => p = FromInt(0))

\* One missing cell in three: 33.33, not 100/3.
NullPercentageRoundedWitness ==
    /\ Generated
    /\ ~EmptyTable
    /\ ExactNullPercentage = Rat(100, 3)
    /\ qc.report["null_percentage_avg"] = Rat(3333, 100)

NoReviewBucket == <<"n", "o", "-", "r", "e", "v", "i", "e", "w">>
StarBucket(n) ==
    <<  <<"0", "1", "2", "3", "4", "5", "6", "7", "8", "9">>[n + 1],
        "-", "s", "t", "a", "r"  >>

\* The bucket the claim gives a ReviewStatus cell (of at most nine glyphs).
BucketOf(cell) ==
    IF cell = NaN THEN NoReviewBucket
    ELSE StarBucket(Cardinality({i \in DOMAIN cell : cell[i] = Star}))

HasColumn(c) == c \in qc_df.columns

\* The count a distribution gives a key, 0 for a key it does not have.
CountIn(dist, key) ==
    IF \E j \in DOMAIN dist : dist[j][1] = key
    THEN (CHOOSE item \in Items(dist) : item[1] = key)[2]
    ELSE 0
RowsInBucket(bucket) ==
    {i \in DOMAIN qc_df.rows : BucketOf(qc_df.rows[i]["ReviewStatus"]) = bucket}

(***************************************************************************)
(* C15.  The review-status bucket of a row is "no-review" if and only if   *)
(* its ReviewStatus cell is missing, and otherwise "{n}-star" with n the   *)
(* number of star glyphs in the cell text; review_status_distribution maps *)
(* each occurring bucket to the number of rows in it, and is the empty     *)
(* mapping when the column is absent.                                      *)
(***************************************************************************)
ReviewBuckets ==
    Generated =>
        LET dist == qc.report["review_status_distribution"]
        IN  IF ~HasColumn("ReviewStatus") THEN dist = <<>>
            ELSE /\ \A i \in DOMAIN qc_df.rows :
                        LET cell == qc_df.rows[i]["ReviewStatus"]
                        IN  \E j \in DOMAIN dist : dist[j][1] = BucketOf(cell)
                 /\ CountIn(dist, NoReviewBucket) =
                        Cardinality({i \in DOMAIN qc_df.rows :
                                        qc_df.rows[i]["ReviewStatus"] = NaN})
                 /\ \A j \in DOMAIN dist :
                        /\ RowsInBucket(dist[j][1]) # {}
                        /\ dist[j][2] = Cardinality(RowsInBucket(dist[j][1]))
                 /\ \A j, k \in DOMAIN dist : dist[j][1] = dist[k][1] => j = k

\* A missing cell and a text without a glyph land in different buckets.
ReviewBucketsWitness ==
    /\ Generated
    /\ HasColumn("ReviewStatus")
    /\ Items(qc.report["review_status_distribution"]) =
            {<<NoReviewBucket, 1>>, <<StarBucket(0), 1>>}

(***************************************************************************)
(* C16.  generate_report sets four_star_percentage to (rows in the         *)
(* "4-star" bucket / row_count) * 100 when row_count > 0, and to 0 when    *)
(* row_count = 0 or the ReviewStatus column is absent; the value lies in   *)
(* [0,100] for every table.                                                *)
(***************************************************************************)
FourStarPercentage ==
    Generated =>
        LET p == qc.report["four_star_percentage"]
        IN  /\ p = IF RowCount > 0 /\ HasColumn("ReviewStatus")
                   THEN Rat(100 * Cardinality(RowsInBucket(StarBucket(4))), RowCount)
                   ELSE FromInt(0)
            /\ RLe(FromInt(0), p) /\ RLe(p, FromInt(100))

\* One row of two has four stars.
FourStarPercentageWitness ==
    /\ Generated
    /\ RowCount = 2
    /\ HasColumn("ReviewStatus")
    /\ Cardinality(RowsInBucket(StarBucket(4))) = 1
    /\ qc.report["four_star_percentage"] = FromInt(50)

DistinctRows == {qc_df.rows[i] : i \in DOMAIN qc_df.rows}

(***************************************************************************)
(* C17.  _calculate_duplicate_count returns the number of rows that are    *)
(* exact duplicates of an earlier row: the first occurrence is not counted *)
(* and each later repeat is counted once, so the count is the number of    *)
(* rows less the number of distinct rows; it is 0 for an empty table, and  *)
(* 2 for the rows (1,SNV),(1,SNV),(2,DEL),(3,INS),(3,INS).                 *)
(***************************************************************************)
DuplicateCount ==
    Generated =>
        /\ qc.report["duplicate_count"] =
            FromInt(IF EmptyTable THEN 0 ELSE RowCount - Cardinality(DistinctRows))
        /\ (qc_df = DuplicatesTable => qc.report["duplicate_count"] = FromInt(2))

\* The table of the example has been counted.
DuplicateCountWitness ==
    /\ Generated
    /\ qc_df = DuplicatesTable
    /\ RowCount = 5 /\ Cardinality(DistinctRows) = 3
    /\ qc.report["duplicate_count"] = FromInt(2)

ReportFields ==
    {"timestamp", "row_count", "column_count", "null_percentage_avg",
     "duplicate_count", "conflicting_count", "four_star_percentage",
     "clinical_significance_distribution", "review_status_distribution",
     "quality_score"}

(***************************************************************************)
(* C18.  For a table lacking any subset of the ConflictingInterpretations, *)
(* ClinicalSignificance and ReviewStatus columns (an empty table           *)
(* included) generate_report returns a complete report: conflicting_count  *)
(* is 0 and a distribution is the empty mapping when its column is absent, *)
(* and a quality_score in [0,100] is attached.                             *)
(***************************************************************************)
AbsentColumnsDegrade ==
    Generated =>
        /\ DOMAIN qc.report = ReportFields
        /\ RLe(FromInt(0), qc.report["quality_score"])
        /\ RLe(qc.report["quality_score"], FromInt(100))
        /\ (~HasColumn("ConflictingInterpretations") =>
                qc.report["conflicting_count"] = FromInt(0))
        /\ (~HasColumn("ClinicalSignificance") =>
                qc.report["clinical_significance_distribution"] = <<>>)
        /\ (~HasColumn("ReviewStatus") =>
                qc.report["review_status_distribution"] = <<>>)

\* A table with rows and none of the three columns has been reported on.
AbsentColumnsDegradeWitness ==
    /\ Generated
    /\ qc_df.columns = {"VariationID", "Type"}
    /\ RowCount = 2
    /\ qc.report["conflicting_count"] = FromInt(0)
    /\ qc.report["review_status_distribution"] = <<>>
    /\ "quality_score" \in DOMAIN qc.report

HasMetadata == qc.pc = "done"
StrKeys == \A f \in DistFields : \A i \in DOMAIN qc.report[f] : IsStr(qc.report[f][i][1])

(***************************************************************************)
(* C19.  _generate_metadata_from_report copies the eight scalar report     *)
(* fields unchanged and adds exactly one entry per bucket of each          *)
(* distribution, so the metadata has                                       *)
(* 8 + |clinical_significance_distribution| + |review_status_distribution| *)
(* entries; the report itself is not modified.  Stated for the reports     *)
(* whose bucket keys are all strings.                                      *)
(***************************************************************************)
MetadataOneEntryPerBucket ==
    HasMetadata /\ StrKeys =>
        /\ qc.metadata[1] = "meta"
        /\ \A f \in ScalarFields : qc.metadata[2][<<f>>] = qc.report[f]
        /\ Cardinality(DOMAIN qc.metadata[2]) =
                8 + Len(qc.report["clinical_significance_distribution"])
                  + Len(qc.report["review_status_distribution"])

Configured == pk.package # PyNone
Separators(name) == Cardinality({i \in DOMAIN name : name[i] = "/"})
Biodata == <<"b", "i", "o", "d", "a", "t", "a">>

(***************************************************************************)
(* C20 as stated.  For every configured package_name the identifier has    *)
(* the form namespace/name with exactly one separator: a name containing   *)
(* no "/" gets the fixed namespace "biodata", and a name that already      *)
(* contains a separator is used as the identifier unchanged.               *)
(***************************************************************************)
PackageNameUnchanged ==
    Configured =>
        /\ Separators(pk.package[2]) = 1
        /\ pk.package[2] =
            IF Separators(pk.package_name) = 0
            THEN Biodata \o <<"/">> \o pk.package_name
            ELSE pk.package_name

(***************************************************************************)
(* C20 amended.  For every configured package_name the identifier has      *)
(* exactly one separator: a name containing no "/" gets the fixed          *)
(* namespace "biodata", a name with exactly one separator is used          *)
(* unchanged, and a name with more separators is cut down to its first     *)
(* two segments, what follows the second separator being dropped.          *)
(***************************************************************************)
PackageNameTwoSegments ==
    Configured =>
        LET name == pk.package_name
            ident == pk.package[2]
        IN  /\ Separators(ident) = 1
            /\ Separators(name) = 0 => ident = Biodata \o <<"/">> \o name
            /\ Separators(name) = 1 => ident = name
            /\ Separators(name) >= 2 =>
                /\ Len(ident) < Len(name)
                /\ ident = SubSeq(name, 1, Len(ident))
                /\ name[Len(ident) + 1] = "/"

\* A name of three segments has lost its third.
PackageNameTwoSegmentsWitness ==
    /\ Configured
    /\ pk.package_name = <<"a", "/", "b", "/", "a">>
    /\ pk.package[2] = <<"a", "/", "b">>

(***************************************************************************)
(* C21, C25: main                                                          *)
(***************************************************************************)
Exited == mn.pc = "exited"
RunReturned(b) == outcome.kind = "returned" /\ outcome.of = "run"
                  /\ outcome.value = PyBool(b)

\* C21 as stated: main exits with 0 exactly when run returned True, and
\* with 1 when run returned False or an exception was raised before run.
MainExitZeroIffSuccess ==
    Exited => /\ mn.exit = 0 <=> RunReturned(TRUE)
              /\ (RunReturned(FALSE) \/ mn.error # PyNone) => mn.exit = 1

\* C21: on a command line argparse accepts, main exits with 0 exactly when
\* run returned True and with 1 otherwise (run returned False, or loading
\* the configuration, applying the override or constructing the pipeline
\* raised); an exception raised in the try statement is always handled.
\* -h exits with 0 and a rejected command line with 2, before the try.
MainExitCode ==
    /\ (Exited /\ mn.argv.kind = "ok") =>
            /\ mn.exit = 0 <=> RunReturned(TRUE)
            /\ mn.exit # 0 => mn.exit = 1
            /\ (RunReturned(FALSE) \/ mn.error # PyNone) => mn.exit = 1
    /\ (Exited /\ mn.argv.kind = "help") => mn.exit = 0 /\ outcome.kind = "none"
    /\ (Exited /\ mn.argv.kind = "usage_error") => mn.exit = 2
    /\ mn.error # PyNone => mn.pc \in {"except", "exited"}

MainExitCodeWitness ==
    Exited /\ mn.argv.kind = "ok" /\ RunReturned(FALSE) /\ mn.exit = 1

\* The pipeline object has been constructed: logging is set up.
Constructed == mn.pc \in {"run", "running"} \/ (Exited /\ outcome.kind # "none")
ConfiguredLevel == IF mn.file_level = PyNone THEN PyStr("INFO") ELSE mn.file_level

\* C25: without --log-level the pipeline logs at the level of the
\* configuration file, with --log-level at the level of the flag.
LogLevelOverride ==
    Constructed => mn.level = IF mn.argv.log_level = PyNone THEN ConfiguredLevel
                              ELSE mn.argv.log_level

(***************************************************************************)
(* C22: the thresholds do not gate the run                                 *)
(***************************************************************************)
RunDone(b) == pc = "idle" /\ outcome.kind = "returned" /\ outcome.of = "run"
              /\ outcome.value = PyBool(b)
Assessed == loc.quality_report # PyNone
Score == loc.quality_report[2].quality_score

\* C22: every successful assessment is followed at once by the publish
\* step, whatever the score; a run that returns failure after a successful
\* assessment failed in packaging; a run that returns success with push
\* enabled has pushed the package with the data file to the registry.
ThresholdsNeverGate ==
    /\ \A i \in DOMAIN log :
            log[i][1] = "assess_successful" =>
                IF i = Len(log) THEN pc = "run_publish"
                ELSE log[i + 1] = Ev("create_package", loc.data_file)
    /\ (RunDone(FALSE) /\ Assessed) => Happened("package_failed")
    /\ RunDone(TRUE) => /\ Assessed
                        /\ Happened("package_successful")
                        /\ PushEnabled(config) =>
                                /\ Happened("pkg.push")
                                /\ registry.made
                                /\ registry.entries = {loc.data_file[2]}

\* A report scoring below min_quality_score has been pushed and the run
\* has returned success.
ThresholdsNeverGateWitness ==
    /\ RunDone(TRUE) /\ PushEnabled(config)
    /\ RLt(Score, FromInt(min_quality_score))
    /\ RLt(Score, FromInt(30))
    /\ registry.made

(***************************************************************************)
(* C23: failures are raised to the caller                                  *)
(***************************************************************************)
\* The step ends in an exception leaving the operation: it reaches the
\* outside caller, or run's except clause when run is the caller.
Propagates == outcome'.kind = "raised" \/ pc' = "run_except"

\* The steps of the Fetcher in which a failure occurs: the last request of
\* download_file fails, the checksum request fails or has an empty body,
\* the archive is no file or does not match, the archive is no gzip stream.
FetcherFails ==
    \/ DfAttemptRaise
    \/ DavChecksumFails
    \/ DavChecksum(<<>>)
    \/ /\ pc = "dav_validate"
       /\ \/ ~IsFile(dl_dir, loc.gz_filepath[2])
          \/ checksum_mismatch(MD5(dl_dir[loc.gz_filepath[2]]),
                               loc.expected_checksum)
    \/ pc = "dav_decompress" /\ ~IsGzip(dl_dir[loc.gz_filepath[2]])

\* The Quality Engine fails: the data file is absent or does not parse.
QualityEngineFails ==
    /\ pc = "run_assess"
    /\ \/ ~Exists(dl_dir, loc.data_file[2])
       \/ ~Parses(dl_dir[loc.data_file[2]])

\* The steps of the Packager in which a failure occurs, the listing of the
\* registry aside: validation fails, the metadata cannot be generated, the
\* push fails.
PackagerFails ==
    \/ /\ pc = "fpw_start"
       /\ \/ ~IsFile(dl_dir, loc.data_file[2])
          \/ missing_fields(loc.quality_report[2]) # <<>>
    \/ pc = "fpw_build" /\ generate_metadata_raises(loc.quality_report[2])
    \/ PtrPushFails

\* C23 as stated: every step of the Fetcher, the Quality Engine and the
\* Packager in which a failure occurs ends in an exception.
EveryFailureRaised ==
    [][(FetcherFails \/ QualityEngineFails \/ PackagerFails \/ GrpListFails)
        => Propagates]_vars

\* C23: every failure in the Fetcher, the Quality Engine and the Packager
\* is raised to the caller, with one exception besides the disabled push:
\* when listing the registry fails get_registry_packages returns the empty
\* list.  A disabled push returns True and leaves the registry as it is.
FailuresRaisedButListing ==
    [][/\ (FetcherFails \/ QualityEngineFails \/ PackagerFails) => Propagates
       /\ GrpListFails => /\ outcome' = Returned(PyList(<<>>))
                          /\ loc'.error # PyNone
       /\ PtrDisabled => registry' = registry /\ ~Propagates]_vars

\* get_registry_packages has caught an exception and returned normally.
FailuresRaisedButListingWitness ==
    /\ outcome.kind = "returned" /\ outcome.of = "get_registry_packages"
    /\ outcome.value = PyList(<<>>)
    /\ loc.error # PyNone

(***************************************************************************)
(* C24: the budget of each factor of the score                             *)
(***************************************************************************)
Scored == sc_result # PyNone
Within(x, lo, hi) == RLe(FromInt(lo), x) /\ RLe(x, FromInt(hi))
NonNegative(field) == RLe(FromInt(0), Get(sc_report, field, FromInt(0)))

\* C24 as stated: for every report each of the four terms lies between 0
\* and its cap.
TermsWithinBudget ==
    Scored => /\ Within(completeness_penalty(sc_report), 0, 30)
              /\ Within(conflict_penalty(sc_report), 0, 25)
              /\ Within(review_bonus(sc_report), 0, 25)
              /\ Within(size_penalty(sc_report), 0, 20)

\* C24: for every report no term exceeds its cap (30, 25, 25, 20) and the
\* size penalty lies in [0,20]; the completeness penalty, the conflict
\* penalty and the bonus are at least 0 when the field they are computed
\* from is not negative, and negative when it is (the conflict penalty
\* when there are rows); the score is the bounded sum of the four terms.
TermsCapped ==
    Scored =>
        /\ RLe(completeness_penalty(sc_report), FromInt(30))
        /\ RLe(conflict_penalty(sc_report), FromInt(25))
        /\ RLe(review_bonus(sc_report), FromInt(25))
        /\ Within(size_penalty(sc_report), 0, 20)
        /\ NonNegative("null_percentage_avg")
                <=> RLe(FromInt(0), completeness_penalty(sc_report))
        /\ NonNegative("four_star_percentage")
                <=> RLe(FromInt(0), review_bonus(sc_report))
        /\ (NonNegative("conflicting_count") \/ ~RLt(FromInt(0),
                Get(sc_report, "row_count", FromInt(0))))
                <=> RLe(FromInt(0), conflict_penalty(sc_report))
        /\ sc_result =
             RMax(FromInt(0), RMin(FromInt(100),
                RSub(RAdd(RSub(RSub(FromInt(100), completeness_penalty(sc_report)),
                               conflict_penalty(sc_report)),
                          review_bonus(sc_report)),
                     size_penalty(sc_report))))

\* The first three terms held at their caps by inputs beyond them, the
\* size penalty of a single row.
TermsCappedWitness ==
    /\ Scored
    /\ completeness_penalty(sc_report) = FromInt(30)
    /\ conflict_penalty(sc_report) = FromInt(25)
    /\ review_bonus(sc_report) = FromInt(25)
    /\ size_penalty(sc_report) = Rat(99, 5)
    /\ RLt(FromInt(60), Get(sc_report, "null_percentage_avg", FromInt(0)))

(***************************************************************************)
(* C30: the score as a function of row_count                               *)
(***************************************************************************)
\* The report has a row_count and its other three fields are not negative.
RowCountGiven ==
    /\ Scored
    /\ "row_count" \in DOMAIN sc_report
    /\ NonNegative("null_percentage_avg")
    /\ NonNegative("conflicting_count")
    /\ NonNegative("four_star_percentage")

\* The next larger row count of ScoreRowCounts, and the score of the report
\* with that row count and the other fields as they are.
LargestRowCount == FromInt(1000)
NextRowCount ==
    IF RLt(sc_report.row_count, FromInt(ScoreMaxRows))
    THEN RAdd(sc_report.row_count, FromInt(1))
    ELSE LargestRowCount
ScoreWithMoreRows ==
    calculate_quality_score([sc_report EXCEPT !.row_count = NextRowCount])

\* a <= b for two scores, comparing whole parts first and the fractions
\* after, which keeps the products small.
ScoreLe(a, b) ==
    \/ a[1] \div a[2] < b[1] \div b[2]
    \/ /\ a[1] \div a[2] = b[1] \div b[2]
       /\ (a[1] % a[2]) * b[2] <= (b[1] % b[2]) * a[2]

\* C30 as stated: from every row_count >= 0 on, more rows never score
\* lower.
ScoreMonotoneFromZero ==
    RowCountGiven => ScoreLe(sc_result, ScoreWithMoreRows)

\* C30: the score is non-decreasing in row_count over row_count >= 1, and
\* from row_count = 0 when conflicting_count is 0 (an empty table has no
\* conflicts); with conflicting_count above 0 the rowless report, which
\* gets no conflict penalty, scores at least as high as the one-row report.
ScoreMonotoneFromOne ==
    RowCountGiven =>
        IF RLt(FromInt(0), sc_report.row_count)
            \/ Get(sc_report, "conflicting_count", FromInt(0)) = FromInt(0)
        THEN ScoreLe(sc_result, ScoreWithMoreRows)
        ELSE ScoreLe(ScoreWithMoreRows, sc_result)

\* More rows score strictly higher: 50 rows against 51 with 5 conflicts.
ScoreMonotoneFromOneWitness ==
    /\ RowCountGiven
    /\ sc_report.row_count = FromInt(50)
    /\ Get(sc_report, "conflicting_count", FromInt(0)) = FromInt(5)
    /\ ~ScoreLe(ScoreWithMoreRows, sc_result)

(***************************************************************************)
(* C26: what download_file leaves behind                                   *)
(***************************************************************************)
DownloadFileDone == pc = "idle" /\ outcome.of = "download_file"
Destination == get_filename_from_url(loc.url)

\* C26: a finished call of download_file has returned a path at which a
\* regular file exists, or has raised and left no file at the destination.
DownloadReturnsFileOrRaises ==
    DownloadFileDone =>
        \/ /\ outcome.kind = "returned"
           /\ outcome.value = PyPath(Destination)
           /\ IsFile(dl_dir, Destination)
        \/ /\ outcome.kind = "raised"
           /\ ~Exists(dl_dir, Destination)

(***************************************************************************)
(* C27: a mismatching archive stays and fails every later run              *)
(***************************************************************************)
Archive == get_filename_from_url(config.source_url)

\* The archive in the download directory does not match the checksum the
\* server holds.
Stuck ==
    /\ remote # <<>>
    /\ IsFile(dl_dir, Archive)
    /\ checksum_mismatch(MD5(dl_dir[Archive]), remote[1])

\* download_and_verify, called directly or by run, has ended with the
\* checksum mismatch.
MismatchEnd ==
    \/ Finished("download_and_verify") /\ MismatchRaised
    \/ /\ Finished("run") /\ outcome.value = PyBool(FALSE)
       /\ loc.error = PyExc("ValueError: Checksum mismatch")

\* The call is over and has not succeeded.
Failed ==
    \/ Finished("download_and_verify") /\ outcome.kind = "raised"
    \/ Finished("run") /\ outcome.value = PyBool(FALSE)

StuckInv ==
    /\ MismatchEnd => Stuck
    /\ (Stuck /\ Entry \in {"download_and_verify", "run"}
              /\ Happened("skip_download")) =>
            /\ ArchiveRequestIdx = {}
            /\ ~Happened("decompress_gzip")
            /\ pc = "idle" => Failed
            /\ (pc = "idle" /\ Happened("md5_compare")) => MismatchEnd

StuckStep ==
    Stuck => Stuck' /\ dl_dir'[Archive] = dl_dir[Archive]

\* C27: a call that ends with the checksum mismatch leaves the mismatching
\* archive in the download directory; no step of the program removes or
\* replaces it; every later call finds it there, issues no request for the
\* archive, never decompresses and fails, with the same mismatch whenever
\* it gets the unchanged checksum from the server.
MismatchIsPermanent == []StuckInv /\ [][StuckStep]_vars

\* The second run has failed with the mismatch on the archive the first
\* one left.
MismatchIsPermanentWitness ==
    /\ calls = 2
    /\ Stuck
    /\ Happened("skip_download")
    /\ ArchiveRequestIdx = {}
    /\ Finished("run")
    /\ MismatchEnd

(***************************************************************************)
(* C28: the checksum is requested once                                     *)
(***************************************************************************)
ChecksumRequestIdx ==
    {i \in EventIdx("requests.get") : log[i][2] = config.checksum_url}

\* Within one call of download_and_verify or run at most one request for
\* the checksum file is made, and exactly one once the checksum is held.
OneChecksumRequest ==
    Entry \in {"download_and_verify", "run"} =>
        /\ Cardinality(ChecksumRequestIdx) <= 1
        /\ pc \in {"dav_validate", "dav_decompress"} =>
                Cardinality(ChecksumRequestIdx) = 1

\* The step of download_checksum makes the one request; when it gives no
\* checksum the exception leaves download_and_verify in that same step,
\* with nothing compared or decompressed and the download directory, the
\* path download_file returned included, as it was.
ChecksumStep ==
    pc = "dav_checksum" =>
        /\ log' # log
        /\ Cardinality(ChecksumRequestIdx') = 1
        /\ pc' # "dav_validate" =>
                /\ Propagates
                /\ ~Happened("md5_compare")'
                /\ ~Happened("decompress_gzip")'
                /\ dl_dir' = dl_dir
                /\ Exists(dl_dir', loc.gz_filepath[2])

\* C28: download_checksum issues exactly one request and is not retried; a
\* failure of the checksum fetch leaves download_and_verify at once, before
\* any comparison or decompression, and the downloaded archive stays.
ChecksumFetchedOnce == []OneChecksumRequest /\ [][ChecksumStep]_vars

\* download_and_verify has ended with the failed checksum request, the
\* archive it downloaded before is on disk.
ChecksumFetchedOnceWitness ==
    /\ Finished("download_and_verify")
    /\ outcome.kind = "raised"
    /\ outcome.value = PyExc("RequestException")
    /\ Cardinality(ChecksumRequestIdx) = 1
    /\ ArchiveRequestIdx # {}
    /\ IsFile(dl_dir, ArchiveName)
    /\ ~Happened("md5_compare")

(***************************************************************************)
(* C29: the counts of the two distributions                                *)
(***************************************************************************)
\* The sum of the counts of a distribution.
Total(dist) == Sum([j \in DOMAIN dist |-> dist[j][2]])

\* The rows whose ClinicalSignificance cell is not missing.
SignificanceRows ==
    IF HasColumn("ClinicalSignificance")
    THEN {i \in DOMAIN qc_df.rows : qc_df.rows[i]["ClinicalSignificance"] # NaN}
    ELSE {}

\* C29: in a report generated from a table with the ReviewStatus column the
\* counts of review_status_distribution sum to row_count; the counts of
\* clinical_significance_distribution sum to the number of rows whose
\* ClinicalSignificance cell is not missing, which is at most row_count.
DistributionTotals ==
    Generated =>
        /\ qc.report["row_count"] = FromInt(RowCount)
        /\ HasColumn("ReviewStatus") =>
                FromInt(Total(qc.report["review_status_distribution"]))
                    = qc.report["row_count"]
        /\ Total(qc.report["clinical_significance_distribution"])
                = Cardinality(SignificanceRows)
        /\ RLe(FromInt(Total(qc.report["clinical_significance_distribution"])),
               qc.report["row_count"])

\* Two rows in two review buckets, one of them without a significance.
DistributionTotalsWitness ==
    /\ Generated
    /\ HasColumn("ReviewStatus") /\ HasColumn("ClinicalSignificance")
    /\ RowCount = 2
    /\ Len(qc.report["review_status_distribution"]) = 2
    /\ Total(qc.report["review_status_distribution"]) = 2
    /\ Total(qc.report["clinical_significance_distribution"]) = 1

====
